---- MODULE Spec2Model ----
(***************************************************************************)
(* Model of classmods: the MethodSpy interception registry                 *)
(* (classmods/method_spy.py), the ORMDescriptor attribute proxy            *)
(* (classmods/orm_class.py) and the logwrap decorator                      *)
(* (classmods/_decorators.py).                                             *)
(*                                                                         *)
(* Python objects are modelled by what the interpreter does with them:     *)
(* a class is a dictionary of attributes, attribute lookup walks the MRO   *)
(* and applies the descriptor protocol, and a call binds its arguments to  *)
(* the parameters of the function that is finally reached.                 *)
(***************************************************************************)
EXTENDS Integers, Sequences, FiniteSets, TLC

VARIABLES
    classDef,         \* the classes as written: type -> (attribute -> object)
    classDict,        \* the classes now: type -> (attribute -> object)
    spies_registery,  \* MethodSpy.spies_registery: key -> list of spies
    spies,            \* the MethodSpy objects created so far: id -> fields
    init_params,      \* the spy_args / spy_kwargs each spy was constructed with
    last,             \* the last operation, its arguments and its outcome
    orm_desc,         \* the ORMDescriptor of the attribute, as constructed
    orm_cache,        \* instance._attribute_cache: name -> <<value, time>>
    orm_store,        \* the value behind the getter, setter and remover
    orm_now,          \* time.time()
    orm_last,         \* the last access through the descriptor
    lw_cfg,           \* logwrap: the options and what normalize made of them
    lw_pending,       \* the frame of an async_wrapper suspended at its await
    lw_log,           \* what the invocation did, in order: hook messages
                      \* given to the logger, start and end of the callable
    lw_last,          \* the last invocation and its outcome
    se_fallback,      \* suppress_errors: the fallback given to the decorator
    se_last,          \* the last call of the decorated function
    sw_contexts,      \* SuperWith: the context managers given to __init__
    sw_stack,         \* the exit callbacks on the ExitStack
    sw_log,           \* the enters and exits done so far, in order
    sw_last,          \* where the with statement stands and how it ended
    threads,          \* threads inside MethodSpy.__init__, remove or a
                      \* dispatch: the statement each stands at, its locals
    orm_pending       \* threads inside ORMDescriptor.__get__ or __set__

spyVars == <<classDef, classDict, spies_registery, spies, init_params, last>>
ormVars == <<orm_desc, orm_cache, orm_store, orm_now, orm_last>>
lwVars == <<lw_cfg, lw_pending, lw_log, lw_last>>
seVars == <<se_fallback, se_last>>
swVars == <<sw_contexts, sw_stack, sw_log, sw_last>>
vars == <<spyVars, ormVars, lwVars, seVars, swVars, threads, orm_pending>>

\* what an operation on one component leaves alone
spyFrame == <<ormVars, lwVars, seVars, swVars, threads, orm_pending>>
ormFrame == <<spyVars, lwVars, seVars, swVars, threads, orm_pending>>
lwFrame == <<spyVars, ormVars, seVars, swVars, threads, orm_pending>>

\* the attribute proxy is not used
OrmIdle ==
    /\ orm_desc = [exc |-> "unused"]
    /\ orm_cache = <<>>
    /\ orm_store = "-"
    /\ orm_now = 0
    /\ orm_last = [op |-> "init"]

\* no function is decorated
LwIdle ==
    /\ lw_cfg = [exc |-> "unused"]
    /\ lw_pending = <<>>
    /\ lw_log = <<>>
    /\ lw_last = [op |-> "init"]

\* no function is decorated with suppress_errors
SeIdle ==
    /\ se_fallback = "unused"
    /\ se_last = [op |-> "init"]

\* no SuperWith is constructed
SwIdle ==
    /\ sw_contexts = <<>>
    /\ sw_stack = <<>>
    /\ sw_log = <<>>
    /\ sw_last = [pc |-> "unused"]

\* no thread is inside an operation
NoThreads ==
    /\ threads = <<>>
    /\ orm_pending = <<>>

(***************************************************************************)
(* Bounds                                                                  *)
(***************************************************************************)
MaxSpies == 2         \* MethodSpy objects constructed in one behaviour
MaxDepth == 3         \* nesting of calls before the interpreter gives up

Types == {"Base", "Sub"}                \* class Base; class Sub(Base): pass
Names == {"m"}                          \* the method name under observation
Kinds == {"function", "classmethod", "staticmethod"}
CallArgs == {"x1", "x2"}                \* values a caller passes
CallStyles == {"instance", "class"}     \* obj.m(...) and Type.m(...)
DefaultArgs == {<<>>}                   \* spy_args = ()
DefaultKwargs == {<<>>}                 \* spy_kwargs = {}
SomeArgs == {<<>>, <<"A">>}
SomeKwargs == {<<>>, << <<"x", "10">> >>}

(***************************************************************************)
(* The Python object model                                                 *)
(***************************************************************************)
\* objects that may sit in a class dictionary or be produced by a lookup
Function(f, np) ==
    [tag |-> "function", fn |-> f, spy |-> 0, self |-> "-", np |-> np]
ClassMethod(f, np) ==
    [tag |-> "classmethod", fn |-> f, spy |-> 0, self |-> "-", np |-> np]
StaticMethod(f, np) ==
    [tag |-> "staticmethod", fn |-> f, spy |-> 0, self |-> "-", np |-> np]

\* class Sub(Base)
MRO(t) == IF t = "Sub" THEN <<"Sub", "Base">> ELSE <<"Base">>

\* one instance of each class
InstOf(t) == IF t = "Sub" THEN "sub_obj" ELSE "base_obj"
Instances == {InstOf(t) : t \in Types}
TypeOf(o) == IF o = "sub_obj" THEN "Sub" ELSE "Base"

\* the classes of the MRO of t that define attribute n
Definers(cd, t, n) ==
    {i \in 1..Len(MRO(t)) : n \in DOMAIN cd[MRO(t)[i]]}

\* hasattr(t, n) for a class t
HasAttr(cd, t, n) == Definers(cd, t, n) # {}

\* the object found by the lookup of n along the MRO of t
Raw(cd, t, n) ==
    LET i == CHOOSE j \in Definers(cd, t, n) :
                 \A k \in Definers(cd, t, n) : j <= k
    IN  cd[MRO(t)[i]][n]

\* descriptor protocol: v.__get__(obj, cls)
Bind(v, obj, cls) ==
    CASE v.tag = "function" ->
            IF obj = "None" THEN v
            ELSE [v EXCEPT !.tag = "method", !.self = obj]
      [] v.tag = "classmethod" -> [v EXCEPT !.tag = "method", !.self = cls]
      [] v.tag = "staticmethod" -> [v EXCEPT !.tag = "function"]
      [] OTHER -> v

\* hasattr(o, n) and getattr(o, n) for a class, an instance or another value
HasAttrObj(cd, o, n) ==
    IF o \in Types THEN HasAttr(cd, o, n)
    ELSE IF o \in Instances THEN HasAttr(cd, TypeOf(o), n)
    ELSE FALSE

GetAttr(cd, o, n) ==
    IF o \in Types THEN Bind(Raw(cd, o, n), "None", o)
    ELSE Bind(Raw(cd, TypeOf(o), n), o, TypeOf(o))

(***************************************************************************)
(* MethodSpy                                                               *)
(***************************************************************************)
\* MethodSpy._create_registery_key
_create_registery_key(s) == <<spies[s].target, spies[s].target_method>>

\* MethodSpy._create_original_name: f'__original_{method_name}'
_create_original_name(method_name) ==
    CASE method_name = "m" -> "__original_m"
      [] OTHER -> "__original_"

\* the function object made by one execution of _wrap_class_method, closed
\* over the spy that ran it
Wrapper(s) ==
    [tag |-> "function", fn |-> "new_method", spy |-> s, self |-> "-",
     np |-> 0]

\* iterating a dict yields its keys: *d for d = {k1: v1, ...}
KeysOf(kw) == [i \in 1..Len(kw) |-> kw[i][1]]

\* what a call did: the bodies that ran, in order, then how it ended
Outcome(events, exc, ret) == [events |-> events, exc |-> exc, ret |-> ret]
Raise(exc) == Outcome(<<>>, exc, <<>>)

\* the body of the method as written ran with the arguments recv
OriginalRan(recv) ==
    [ev |-> "original", spy |-> 0, first |-> "-", args |-> recv,
     kwargs |-> <<>>]
\* the callable of spy handler was called as
\* _spy_callable(first, *args, **kwargs)
SpyCalled(handler, first, args, kwargs) ==
    [ev |-> "callback", spy |-> handler, first |-> first, args |-> args,
     kwargs |-> kwargs]

\* the value a function body computes from the arguments it received
ReturnValue(recv) == <<"result of">> \o recv

\* a loop over the handlers that goes on to the next handler after a
\* callback has raised, and raises at the end
RECURSIVE CallSpiesIsolated(_, _, _, _, _)
CallSpiesIsolated(handlers, i, instance, self, raiser) ==
    IF i > Len(handlers) THEN Outcome(<<>>, "ok", <<>>)
    ELSE LET handler == handlers[i]
             invocation ==
                 SpyCalled(handler, instance, KeysOf(spies[self]._spy_args),
                           spies[self]._spy_args)
             rest == CallSpiesIsolated(handlers, i + 1, instance, self,
                                       raiser)
         IN  IF ~spies[handler]._active THEN rest
             ELSE Outcome(<<invocation>> \o rest.events,
                          IF handler = raiser THEN "CallbackError"
                          ELSE rest.exc, <<>>)

\* the loop of new_method over the handlers of the key, from position i on;
\* the callback of spy raiser raises when it is invoked
RECURSIVE CallSpies(_, _, _, _, _)
CallSpies(handlers, i, instance, self, raiser) ==
    IF i > Len(handlers) THEN Outcome(<<>>, "ok", <<>>)
    ELSE LET handler == handlers[i]
             invocation ==
                 SpyCalled(handler, instance, KeysOf(spies[self]._spy_args),
                           spies[self]._spy_args)
         IN  IF ~spies[handler]._active
             THEN CallSpies(handlers, i + 1, instance, self, raiser)
             ELSE IF handler = raiser
             THEN Outcome(<<invocation>>, "CallbackError", <<>>)
             ELSE LET rest ==
                          CallSpies(handlers, i + 1, instance, self, raiser)
                  IN  Outcome(<<invocation>> \o rest.events, rest.exc, <<>>)

\* calling the object c with the positional arguments args
RECURSIVE Invoke(_, _, _, _, _)

\* new_method(instance, *args, **kwargs) of the wrapper installed by spy self
new_method(cd, self, recv, raiser, depth) ==
    IF Len(recv) = 0 THEN Raise("TypeError")
    ELSE
    LET instance == recv[1]
        args == Tail(recv)
        original_name == _create_original_name(spies[self].target_method)
    IN  IF ~HasAttrObj(cd, instance, original_name)
        THEN Raise("AttributeError")
        ELSE
        LET original_method == GetAttr(cd, instance, original_name)
            output == Invoke(cd, original_method, args, raiser, depth + 1)
            key == _create_registery_key(self)
            handlers == IF key \in DOMAIN spies_registery
                        THEN spies_registery[key] ELSE <<>>
            done == CallSpies(handlers, 1, instance, self, raiser)
        IN  IF output.exc # "ok" THEN output
            ELSE Outcome(output.events \o done.events, done.exc,
                         IF done.exc = "ok" THEN output.ret ELSE <<>>)

Invoke(cd, c, args, raiser, depth) ==
    LET recv == IF c.tag = "method" THEN <<c.self>> \o args ELSE args
    IN  IF depth > MaxDepth THEN Raise("RecursionError")
        ELSE IF c.tag \notin {"method", "function"} THEN Raise("TypeError")
        ELSE IF c.fn = "new_method"
        THEN new_method(cd, c.spy, recv, raiser, depth)
        ELSE IF Len(recv) # c.np THEN Raise("TypeError")
        ELSE Outcome(<<OriginalRan(recv)>>, "ok", ReturnValue(recv))

\* obj.m(*args) for the instance of t, or t.m(*args)
CallMethod(cd, t, style, n, args, raiser) ==
    LET target == IF style = "instance" THEN InstOf(t) ELSE t
    IN  Invoke(cd, GetAttr(cd, target, n), args, raiser, 0)

\* setattr(t, n, v) and delattr(t, n) on a class
SetAttr(cd, t, n, v) == [cd EXCEPT ![t] = (n :> v) @@ @]
DelAttr(cd, t, n) == [cd EXCEPT ![t] = [a \in (DOMAIN @) \ {n} |-> @[a]]]

\* MethodSpy._wrap_class_method: the exception it raises, or the class
\* dictionaries it leaves
_wrap_class_method(cd, self, target, method_name) ==
    LET original_name == _create_original_name(method_name)
        saved == IF ~HasAttr(cd, target, original_name)
                 THEN SetAttr(cd, target, original_name,
                              GetAttr(cd, target, method_name))
                 ELSE cd
    IN  IF ~HasAttr(cd, target, method_name)
        THEN [exc |-> "AttributeError", cd |-> cd]
        ELSE [exc |-> "ok", cd |-> SetAttr(saved, target, method_name,
                                           Wrapper(self))]

\* list.remove(x) for an x that is in the list
ListRemove(list, x) ==
    LET i == CHOOSE j \in 1..Len(list) :
                 list[j] = x /\ \A k \in 1..(j - 1) : list[k] # x
    IN  SubSeq(list, 1, i - 1) \o SubSeq(list, i + 1, Len(list))

InList(list, x) == \E i \in 1..Len(list) : list[i] = x

\* del d[key]
DictDel(d, key) == [k \in (DOMAIN d) \ {key} |-> d[k]]

NoOutcome == Outcome(<<>>, "none", <<>>)

\* the record of an operation on the registry
Op(op, s, target, name, exc) ==
    [op |-> op, spy |-> s, target |-> target, name |-> name, style |-> "-",
     args |-> <<>>, raiser |-> 0, exc |-> exc, res |-> NoOutcome,
     expected |-> NoOutcome]

\* the class body: attribute __doc__ and, in class definer, the method m
DocString == [tag |-> "str", fn |-> "doc", spy |-> 0, self |-> "-", np |-> 0]
MethodOf(kind) ==
    CASE kind = "function" -> Function("m", 2)           \* def m(self, x)
      [] kind = "classmethod" -> ClassMethod("m", 1)     \* def m(cls)
      [] kind = "staticmethod" -> StaticMethod("m", 0)   \* def m()
ClassBody(t, kind, definer) ==
    IF t = definer THEN ("m" :> MethodOf(kind)) @@ ("__doc__" :> DocString)
    ELSE ("__doc__" :> DocString)

Definitions == Types \cup {"nowhere"}

InitOf(kinds, definers) ==
    /\ \E kind \in kinds, definer \in definers :
           classDef = [t \in Types |-> ClassBody(t, kind, definer)]
    /\ classDict = classDef
    /\ spies_registery = <<>>
    /\ spies = <<>>
    /\ init_params = <<>>
    /\ last = Op("init", 0, "-", "-", "ok")
    /\ OrmIdle
    /\ LwIdle
    /\ SeIdle
    /\ SwIdle
    /\ NoThreads

Init == InitOf(Kinds, Definitions)

\* MethodSpy(target, spy_callable, spy_args, spy_kwargs,
\*           target_method=..., active=...)
Register(target, target_method, spy_args, spy_kwargs, active) ==
    /\ Len(spies) < MaxSpies
    /\ LET self == Len(spies) + 1
           key == <<target, target_method>>
           fresh == key \notin DOMAIN spies_registery
           created == IF fresh THEN (key :> <<>>) @@ spies_registery
                      ELSE spies_registery
           wrapped == IF fresh
                      THEN _wrap_class_method(classDict, self, target,
                                              target_method)
                      ELSE [exc |-> "ok", cd |-> classDict]
       IN  IF wrapped.exc # "ok"
           THEN /\ spies_registery' = created
                /\ last' = Op("register", 0, target, target_method,
                              wrapped.exc)
                /\ UNCHANGED <<classDict, spies, init_params>>
           ELSE /\ spies' = Append(spies,
                                   [target |-> target,
                                    target_method |-> target_method,
                                    _spy_args |-> spy_kwargs,
                                    _active |-> active])
                /\ init_params' = Append(init_params,
                                         [spy_args |-> spy_args,
                                          spy_kwargs |-> spy_kwargs])
                /\ classDict' = wrapped.cd
                /\ spies_registery' =
                       [created EXCEPT ![key] = Append(@, self)]
                /\ last' = Op("register", self, target, target_method, "ok")
    /\ UNCHANGED classDef
    /\ UNCHANGED spyFrame

\* MethodSpy.activate
activate(self) ==
    /\ self \in 1..Len(spies)
    /\ spies' = [spies EXCEPT ![self]._active = TRUE]
    /\ last' = Op("activate", self, spies[self].target,
                  spies[self].target_method, "ok")
    /\ UNCHANGED <<classDef, classDict, spies_registery, init_params>>
    /\ UNCHANGED spyFrame

\* a deactivate that takes the spy out of the list of its key
deactivate_unregistering(self) ==
    /\ self \in 1..Len(spies)
    /\ spies' = [spies EXCEPT ![self]._active = FALSE]
    /\ last' = Op("deactivate", self, spies[self].target,
                  spies[self].target_method, "ok")
    /\ spies_registery' =
           [key \in DOMAIN spies_registery |->
               SelectSeq(spies_registery[key], LAMBDA s : s # self)]
    /\ UNCHANGED <<classDef, classDict, init_params>>
    /\ UNCHANGED spyFrame

\* MethodSpy.deactivate
deactivate(self) ==
    /\ self \in 1..Len(spies)
    /\ spies' = [spies EXCEPT ![self]._active = FALSE]
    /\ last' = Op("deactivate", self, spies[self].target,
                  spies[self].target_method, "ok")
    /\ UNCHANGED <<classDef, classDict, spies_registery, init_params>>
    /\ UNCHANGED spyFrame

\* MethodSpy.remove
remove(self) ==
    /\ self \in 1..Len(spies)
    /\ LET key == _create_registery_key(self)
           target == spies[self].target
           method == spies[self].target_method
           original_name == _create_original_name(method)
           has == HasAttr(classDict, target, original_name)
           restored == IF has
                       THEN SetAttr(classDict, target, method,
                                    GetAttr(classDict, target, original_name))
                       ELSE classDict
           done(exc) == last' = Op("remove", self, target, method, exc)
       IN  IF key \notin DOMAIN spies_registery
           THEN done("ok") /\ UNCHANGED <<classDict, spies_registery>>
           ELSE IF ~InList(spies_registery[key], self)
           THEN done("ValueError") /\ UNCHANGED <<classDict, spies_registery>>
           ELSE IF ListRemove(spies_registery[key], self) # <<>>
           THEN /\ done("ok")
                /\ spies_registery' =
                       [spies_registery EXCEPT ![key] = ListRemove(@, self)]
                /\ UNCHANGED classDict
           ELSE IF has /\ original_name \notin DOMAIN classDict[target]
           THEN /\ done("AttributeError")
                /\ spies_registery' = [spies_registery EXCEPT ![key] = <<>>]
                /\ classDict' = restored
           ELSE /\ done("ok")
                /\ spies_registery' = DictDel(spies_registery, key)
                /\ classDict' = IF has
                                THEN DelAttr(restored, target, original_name)
                                ELSE classDict
    /\ UNCHANGED <<classDef, spies, init_params>>
    /\ UNCHANGED spyFrame

\* a caller invokes the method: obj.m(*args) or Type.m(*args), with
\* arguments the method as written accepts; the callback of spy raiser
\* raises if it is invoked
Call(t, style, n, args, raiser) ==
    /\ HasAttr(classDef, t, n)
    /\ CallMethod(classDef, t, style, n, args, 0).exc = "ok"
    /\ raiser \in 0..Len(spies)
    /\ last' = [op |-> "call", spy |-> 0, target |-> t, name |-> n,
                style |-> style, args |-> args, raiser |-> raiser,
                exc |-> CallMethod(classDict, t, style, n, args, raiser).exc,
                res |-> CallMethod(classDict, t, style, n, args, raiser),
                expected |-> CallMethod(classDef, t, style, n, args, 0)]
    /\ UNCHANGED <<classDef, classDict, spies_registery, spies, init_params>>
    /\ UNCHANGED spyFrame

ArgLists == {<<>>} \cup {<<x>> : x \in CallArgs}

NextOf(targets, argsSet, kwargsSet, raisers) ==
    \/ \E t \in targets, n \in Names, a \in argsSet, k \in kwargsSet,
          act \in BOOLEAN : Register(t, n, a, k, act)
    \/ \E s \in 1..MaxSpies : activate(s)
    \/ \E s \in 1..MaxSpies : deactivate(s)
    \/ \E s \in 1..MaxSpies : remove(s)
    \/ \E t \in Types, st \in CallStyles, n \in Names, a \in ArgLists,
          r \in raisers : Call(t, st, n, a, r)

Next == NextOf(Types, DefaultArgs, DefaultKwargs, 0..MaxSpies)

Spec == Init /\ [][Next]_vars

\* the same operations on one instance method, with spies constructed with
\* every combination of positional and keyword arguments
InitArgs == InitOf({"function"}, {"Base"})
NextArgs == NextOf({"Base"}, SomeArgs, SomeKwargs, {0})
SpecArgs == InitArgs /\ [][NextArgs]_vars

(***************************************************************************)
(* Properties                                                              *)
(***************************************************************************)
Keys == Types \X Names

Handlers(key) ==
    IF key \in DOMAIN spies_registery THEN spies_registery[key] ELSE <<>>
IsActive(s) == spies[s]._active
ActiveHandlers(key) == SelectSeq(Handlers(key), IsActive)

IsOriginal(e) == e.ev = "original"
IsCallback(e) == e.ev = "callback"
Originals(o) == SelectSeq(o.events, IsOriginal)
Callbacks(o) == SelectSeq(o.events, IsCallback)
SpiesOf(evs) == [i \in 1..Len(evs) |-> evs[i].spy]
TimesCalled(o, s) ==
    Cardinality({i \in 1..Len(o.events) :
                     IsCallback(o.events[i]) /\ o.events[i].spy = s})

IsCall == last.op = "call"
CalledKey == <<last.target, last.name>>
\* the method found at the called name is a dispatch wrapper
Wrapped(t, n) ==
    HasAttr(classDict, t, n) /\ Raw(classDict, t, n).fn = "new_method"
\* the key whose handlers the wrapper found at t.n dispatches to
DispatchKey(t, n) == _create_registery_key(Raw(classDict, t, n).spy)
\* some callback raised in the last call
CallbackRaised == last.res.exc = "CallbackError"
\* a spy that was registered and is no longer in the list of its key
Removed(s) ==
    /\ s \in 1..Len(spies)
    /\ ~InList(Handlers(_create_registery_key(s)), s)
NoSpyRegistered == \A key \in DOMAIN spies_registery : spies_registery[key] = <<>>

\* C1: a call of the method of a key with registered spies, in which no
\* callback raises, runs the original first and then the callback of each
\* active spy of the key exactly once, in registration order, and returns.
C1_DispatchInOrder ==
    (IsCall /\ Handlers(CalledKey) # <<>> /\ ~CallbackRaised) =>
        /\ last.res.exc = "ok"
        /\ Len(Originals(last.res)) = 1
        /\ IsOriginal(last.res.events[1])
        /\ SpiesOf(Callbacks(last.res)) = ActiveHandlers(CalledKey)

\* C2: once every spy has been removed, each class answers a lookup of the
\* method with the object it answered with before any registration, no
\* saved alias remains, and every call does what the method as written
\* does, with no callback.
C2_OriginalRestored ==
    NoSpyRegistered =>
        \A t \in Types, n \in Names :
            HasAttr(classDef, t, n) =>
                /\ GetAttr(classDict, t, n) = GetAttr(classDef, t, n)
                /\ _create_original_name(n) \notin DOMAIN classDict[t]
                /\ \A st \in CallStyles, a \in ArgLists :
                       CallMethod(classDef, t, st, n, a, 0).exc = "ok" =>
                           CallMethod(classDict, t, st, n, a, 0)
                               = CallMethod(classDef, t, st, n, a, 0)

\* C3: remove() on a spy that is already removed raises nothing and leaves
\* the registry and the classes as they were, whether or not its key is
\* still in the registry.
C3_RemoveIdempotent ==
    [][\A s \in 1..MaxSpies :
           (Removed(s) /\ last'.op = "remove" /\ last'.spy = s) =>
               /\ last'.exc = "ok"
               /\ UNCHANGED <<spies_registery, classDict>>]_vars

\* C4: every callback is called with the positional and keyword arguments
\* its own spy was constructed with.
C4_OwnArguments ==
    IsCall =>
        \A i \in 1..Len(last.res.events) :
            LET e == last.res.events[i]
            IN  IsCallback(e) =>
                    /\ e.args = init_params[e.spy].spy_args
                    /\ e.kwargs = init_params[e.spy].spy_kwargs

\* C5: in a call in which no callback raises, a deactivated spy of the key
\* is called zero times and every active spy of the key is called.
C5_ActiveFlagGates ==
    (IsCall /\ ~CallbackRaised) =>
        \A i \in 1..Len(Handlers(CalledKey)) :
            LET s == Handlers(CalledKey)[i]
            IN  IF IsActive(s) THEN TimesCalled(last.res, s) >= 1
                ELSE TimesCalled(last.res, s) = 0

\* the first argument a callback is to receive for a call of t.n in a style
ExpectedFirst(t, n, style) ==
    LET kind == Raw(classDef, t, n).tag
    IN  CASE kind = "function" -> InstOf(t)
          [] kind = "classmethod" -> t
          [] OTHER -> "None"

\* C6: a call of a method with active spies passes each callback the
\* instance (instance method), the class (classmethod) or None
\* (staticmethod) as first argument, and the original receives exactly the
\* arguments it receives without any spy.
C6_FirstArgument ==
    (IsCall /\ ActiveHandlers(CalledKey) # <<>> /\ ~CallbackRaised) =>
        /\ Callbacks(last.res) # <<>>
        /\ \A i \in 1..Len(Callbacks(last.res)) :
               Callbacks(last.res)[i].first
                   = ExpectedFirst(last.target, last.name, last.style)
        /\ Originals(last.res) = Originals(last.expected)

\* C7: a call of a wrapped method runs the original exactly once, with the
\* arguments of the caller, and returns its return value unless a callback
\* raises.
C7_OriginalOnce ==
    (IsCall /\ Wrapped(last.target, last.name)) =>
        /\ Originals(last.res) = Originals(last.expected)
        /\ Len(Originals(last.res)) = 1
        /\ ~CallbackRaised =>
               /\ last.res.exc = "ok"
               /\ last.res.ret = last.expected.ret

\* the position of spy s in a list that holds it
PositionOf(list, s) == CHOOSE i \in 1..Len(list) : list[i] = s

\* C8: when the callback of the k-th active spy raises, the call ends with
\* that exception and without a return value; the original ran first and
\* once, the first k active spies were called in order, no later spy was
\* called, and the registry, the spies and the classes are unchanged.
C8_RaisingCallback ==
    [][(last'.op = "call" /\ last'.res.exc = "CallbackError") =>
           LET key == DispatchKey(last'.target, last'.name)
               active == ActiveHandlers(key)
               res == last'.res
           IN  /\ Wrapped(last'.target, last'.name)
               /\ InList(active, last'.raiser)
               /\ last'.exc = "CallbackError"
               /\ res.ret = <<>>
               /\ Len(Originals(res)) = 1
               /\ IsOriginal(res.events[1])
               /\ SpiesOf(Callbacks(res))
                      = SubSeq(active, 1, PositionOf(active, last'.raiser))
               /\ UNCHANGED <<spies_registery, spies, classDict>>]_vars

\* a call in which the callback of the first of two active spies raised
C8_Witness ==
    /\ IsCall /\ CallbackRaised
    /\ Wrapped(last.target, last.name)
    /\ Len(ActiveHandlers(DispatchKey(last.target, last.name))) = 2
    /\ ActiveHandlers(DispatchKey(last.target, last.name))[1] = last.raiser
    /\ Len(Callbacks(last.res)) = 1

\* C9: a registration fails with the missing-target error exactly when the
\* class has no attribute of the method name, own or inherited.
C9_MissingTarget ==
    last.op = "register" =>
        (last.exc = "AttributeError"
             <=> ~HasAttr(classDict, last.target, last.name))

\* C10: a key is in the registry exactly when its list is not empty, and
\* exactly when the class holds a dispatch wrapper at the method name and
\* the original under the alias.
C10_KeyLifecycle ==
    \A key \in Keys :
        LET t == key[1]
            n == key[2]
            installed ==
                /\ n \in DOMAIN classDict[t]
                /\ classDict[t][n].fn = "new_method"
                /\ HasAttr(classDict, t, _create_original_name(n))
                /\ Raw(classDict, t, _create_original_name(n)).fn
                       # "new_method"
        IN  /\ (key \in DOMAIN spies_registery) <=> (Handlers(key) # <<>>)
            /\ (key \in DOMAIN spies_registery) <=> installed


(***************************************************************************)
(* ORMDescriptor (classmods/orm_class.py): an attribute of an ORMClass     *)
(* instance whose reads, writes and deletes go through a getter, a setter  *)
(* and a remover, with a per-instance cache of the value read.             *)
(***************************************************************************)

MaxTime == 3    \* the clock runs from 0 to MaxTime

\* Python values: the class of the value, its content, and what built it
PyValue(t, v, via) == [t |-> t, v |-> v, via |-> via]
None == PyValue("NoneType", "None", "literal")
PyStr(v) == PyValue("str", v, "literal")
PyInt(v) == PyValue("int", v, "literal")

AttrName == "attr"

\* ORMDescriptorType(raw_class, constructor)
ORMDescriptorType(raw_class, constructor) ==
    [raw_class |-> raw_class, constructor |-> constructor]

isinstance(value, class) == value.t = class

\* a conversion that hands the raw value on as it is
to_pythonRaw(type, value) == value

to_python(type, value) ==
    IF type.constructor
    THEN PyValue(type.raw_class, value.v, "constructor")
    ELSE IF isinstance(value, type.raw_class)
         THEN value
         ELSE PyValue(type.raw_class, value.v, "raw_class")

validate(type, value) == isinstance(value, type.raw_class)

\* a validator that accepts every value
validatorAcceptingAll(value) == TRUE

\* the validator of the tests: it rejects one content
validator(value) == value.v /= "bad"

\* ORMDescriptor.__init__: the descriptor, or the ValueError it raises
ORMDescriptor(type, getter, setter, remover, hasValidator, cache_timeout, changeable, nullable, sensitive) ==
    IF ~setter /\ changeable THEN [exc |-> "ValueError: setter"]
    ELSE IF ~remover /\ nullable THEN [exc |-> "ValueError: remover"]
    ELSE [exc |-> "ok",
          type |-> type,
          getter |-> IF ~sensitive THEN getter ELSE FALSE,
          setter |-> setter,
          remover |-> remover,
          validator |-> hasValidator,
          cache_timeout |-> cache_timeout,
          changeable |-> changeable,
          nullable |-> nullable,
          sensitive |-> sensitive,
          name |-> AttrName]

\* a lookup that never finds the entry
CacheGetMiss(cache, name) == <<>>

\* instance._attribute_cache.get(name)
CacheGet(cache, name) == IF name \in DOMAIN cache THEN cache[name] ELSE <<>>

\* a pop that leaves the entry in place
CachePopKeep(cache, name) == cache

\* instance._attribute_cache.pop(name, None)
CachePop(cache, name) == [k \in DOMAIN cache \ {name} |-> cache[k]]
CachePut(cache, name, entry) ==
    [k \in DOMAIN cache \cup {name} |-> IF k = name THEN entry ELSE cache[k]]

\* what an access did: the exception or "ok", the value returned, and the
\* calls it made on the getter, the setter and the remover
Access(op, value, exc, ret, getterCalls, setterCalls, removerCalls) ==
    [op |-> op, value |-> value, exc |-> exc, ret |-> ret,
     getter |-> getterCalls, setter |-> setterCalls, remover |-> removerCalls,
     before |-> orm_cache, at |-> orm_now, stored |-> orm_store]

NoValue == PyValue("-", "-", "-")

\* the getter reads the stored value; a removed value reads as None
getter(store) == store

\* ORMDescriptor.__get__ consulting the cache before the sensitive check
GetCacheFirst(desc, cache, store, now) ==
    LET cache_entry == CacheGet(cache, desc.name) IN
    IF cache_entry /= <<>> /\ now - cache_entry[2] <= desc.cache_timeout
    THEN [exc |-> "ok", ret |-> cache_entry[1], cache |-> cache, getter |-> 0]
    ELSE IF desc.sensitive
    THEN [exc |-> "AttributeError: restricted", ret |-> NoValue,
          cache |-> cache, getter |-> 0]
    ELSE [exc |-> "AttributeError: no getter", ret |-> NoValue,
          cache |-> cache, getter |-> 0]

\* ORMDescriptor.__get__(instance, owner) with instance not None
__get__(desc, cache, store, now) ==
    LET cache_entry == CacheGet(cache, desc.name) IN
    IF desc.sensitive
    THEN [exc |-> "AttributeError: restricted", ret |-> NoValue,
          cache |-> cache, getter |-> 0]
    ELSE IF cache_entry /= <<>> /\ now - cache_entry[2] <= desc.cache_timeout
    THEN [exc |-> "ok", ret |-> cache_entry[1], cache |-> cache, getter |-> 0]
    ELSE IF ~desc.getter
    THEN [exc |-> "AttributeError: no getter", ret |-> NoValue,
          cache |-> cache, getter |-> 0]
    ELSE LET raw_value == getter(store)
             value == to_python(desc.type, raw_value)
         IN [exc |-> "ok", ret |-> value,
             cache |-> IF desc.cache_timeout > 0
                       THEN CachePut(cache, desc.name, <<value, now>>)
                       ELSE cache,
             getter |-> 1]

\* ORMDescriptor.__set__ validating the value before the changeable check
SetValidateFirst(desc, cache, store, value) ==
    LET failed(exc) == [exc |-> exc, cache |-> cache, store |-> store,
                        setter |-> 0, remover |-> <<>>]
    IN
    IF value /= None /\ ~validate(desc.type, value)
    THEN failed("ValueError: type")
    ELSE IF value /= None /\ desc.validator /\ ~validator(value)
    THEN failed("ValueError: validation")
    ELSE IF ~desc.changeable THEN failed("AttributeError: read-only")
    ELSE IF value = None
    THEN IF ~desc.nullable THEN failed("AttributeError: not nullable")
         ELSE [exc |-> "ok", cache |-> CachePop(cache, desc.name),
               store |-> IF desc.remover THEN None ELSE store,
               setter |-> 0,
               remover |-> IF desc.remover THEN <<value>> ELSE <<>>]
    ELSE [exc |-> "ok", cache |-> CachePop(cache, desc.name),
          store |-> IF desc.setter THEN value ELSE store,
          setter |-> IF desc.setter THEN 1 ELSE 0,
          remover |-> <<>>]

\* ORMDescriptor.__set__(instance, value)
__set__(desc, cache, store, value) ==
    LET failed(exc) == [exc |-> exc, cache |-> cache, store |-> store,
                        setter |-> 0, remover |-> <<>>]
    IN
    IF ~desc.changeable THEN failed("AttributeError: read-only")
    ELSE IF value = None
    THEN IF ~desc.nullable THEN failed("AttributeError: not nullable")
         ELSE [exc |-> "ok", cache |-> CachePop(cache, desc.name),
               store |-> IF desc.remover THEN None ELSE store,
               setter |-> 0,
               remover |-> IF desc.remover THEN <<value>> ELSE <<>>]
    ELSE IF ~validate(desc.type, value) THEN failed("ValueError: type")
    ELSE IF desc.validator /\ ~validator(value)
    THEN failed("ValueError: validation")
    ELSE [exc |-> "ok", cache |-> CachePop(cache, desc.name),
          store |-> IF desc.setter THEN value ELSE store,
          setter |-> IF desc.setter THEN 1 ELSE 0,
          remover |-> <<>>]

\* ORMDescriptor.__delete__(instance)
__delete__(desc, cache, store) ==
    [exc |-> "ok", cache |-> CachePop(cache, desc.name),
     store |-> IF desc.remover THEN None ELSE store,
     setter |-> 0,
     remover |-> IF desc.remover THEN <<PyStr(desc.name)>> ELSE <<>>]

RawClasses == {"str"}
Timeouts == {0, 1}
StoredValues == {PyStr("s1"), PyInt("7")}
WrittenValues == {None, PyStr("s2"), PyStr("bad"), PyInt("7")}
\* the cache of a new instance is empty (ORMClass.__init__); an entry can be
\* present before the first access only by a direct write to the cache
InitialCaches == {<<>>, AttrName :> <<PyStr("s0"), 0>>}

Descriptors ==
    {ORMDescriptor(ORMDescriptorType(rc, c), g, s, r, v, ct, ch, n, sv) :
        rc \in RawClasses, c \in BOOLEAN, g \in BOOLEAN, s \in BOOLEAN,
        r \in BOOLEAN, v \in BOOLEAN, ct \in Timeouts, ch \in BOOLEAN,
        n \in BOOLEAN, sv \in BOOLEAN}

SpyIdle ==
    /\ classDef = [t \in Types |-> ("__doc__" :> DocString)]
    /\ classDict = classDef
    /\ spies_registery = <<>>
    /\ spies = <<>>
    /\ init_params = <<>>
    /\ last = Op("init", 0, "-", "-", "ok")

InitORM ==
    /\ SpyIdle
    /\ orm_desc \in {d \in Descriptors : d.exc = "ok"}
    /\ orm_cache \in InitialCaches
    /\ orm_store \in StoredValues
    /\ orm_now = 0
    /\ orm_last = [op |-> "init"]
    /\ LwIdle
    /\ SeIdle
    /\ SwIdle
    /\ NoThreads

\* value = instance.attr
ReadAttr ==
    LET r == __get__(orm_desc, orm_cache, orm_store, orm_now) IN
    /\ orm_cache' = r.cache
    /\ orm_last' = Access("get", NoValue, r.exc, r.ret, r.getter, 0, <<>>)
    /\ UNCHANGED <<orm_desc, orm_store, orm_now>>
    /\ UNCHANGED ormFrame

\* instance.attr = value
WriteAttr(value) ==
    LET r == __set__(orm_desc, orm_cache, orm_store, value) IN
    /\ orm_cache' = r.cache
    /\ orm_store' = r.store
    /\ orm_last' = Access("set", value, r.exc, NoValue, 0, r.setter, r.remover)
    /\ UNCHANGED <<orm_desc, orm_now>>
    /\ UNCHANGED ormFrame

\* del instance.attr
DelAttrib ==
    LET r == __delete__(orm_desc, orm_cache, orm_store) IN
    /\ orm_cache' = r.cache
    /\ orm_store' = r.store
    /\ orm_last' = Access("delete", NoValue, r.exc, NoValue, 0, r.setter, r.remover)
    /\ UNCHANGED <<orm_desc, orm_now>>
    /\ UNCHANGED ormFrame

\* time passes
Tick ==
    /\ orm_now < MaxTime
    /\ orm_now' = orm_now + 1
    /\ UNCHANGED <<orm_desc, orm_cache, orm_store, orm_last>>
    /\ UNCHANGED ormFrame

NextORM ==
    \/ ReadAttr
    \/ \E value \in WrittenValues : WriteAttr(value)
    \/ DelAttrib
    \/ Tick

SpecORM == InitORM /\ [][NextORM]_vars

(***************************************************************************)
(* Properties of ORMDescriptor                                             *)
(***************************************************************************)

IsGet == orm_last.op = "get"
IsSet == orm_last.op = "set"
IsDelete == orm_last.op = "delete"
Succeeded == orm_last.exc = "ok"
\* the cache entry the access found, and whether it was inside the window
FoundEntry == AttrName \in DOMAIN orm_last.before
FoundFresh ==
    /\ FoundEntry
    /\ orm_last.at - orm_last.before[AttrName][2] <= orm_desc.cache_timeout

\* C11: a read of a sensitive attribute always fails with the "restricted"
\* AttributeError, returns no value and does not call the getter, also when
\* the instance cache holds an entry for the name.
C11_SensitiveRead ==
    (IsGet /\ orm_desc.sensitive) =>
        /\ orm_last.exc = "AttributeError: restricted"
        /\ orm_last.ret = NoValue
        /\ orm_last.getter = 0
        /\ orm_cache = orm_last.before

C11_Witness ==
    /\ IsGet
    /\ orm_desc.sensitive
    /\ FoundFresh
    /\ orm_last.exc = "AttributeError: restricted"

\* a read that had to go to the getter: the attribute is readable and has one
Readable == ~orm_desc.sensitive /\ orm_desc.getter

\* C12 as stated: with cache_timeout > 0, a read within the window after a
\* successful write returns the written value from the cache without calling
\* the getter; a read after the window calls the getter.
C12_SetThenGetCached ==
    [][(/\ orm_desc.cache_timeout > 0
        /\ Readable
        /\ IsSet /\ Succeeded
        /\ orm_last'.op = "get")
       => IF orm_last'.at - orm_last.at <= orm_desc.cache_timeout
          THEN orm_last'.getter = 0 /\ orm_last'.exc = "ok"
          ELSE orm_last'.getter = 1]_vars

\* C12: a successful write removes the cache entry, so the read that follows
\* it calls the getter (and caches the value when cache_timeout > 0); with
\* cache_timeout > 0, a read within the window after a read that called the
\* getter returns the cached value without calling the getter, and a read
\* after the window calls the getter again.
C12_GetThenGetCached ==
    [][(/\ Readable
        /\ orm_last'.op = "get"
        /\ orm_last' /= orm_last)
       => /\ (IsSet /\ Succeeded) =>
                /\ orm_last'.getter = 1
                /\ orm_last'.ret = to_python(orm_desc.type, orm_store)
                /\ orm_desc.cache_timeout > 0 =>
                       orm_cache'[AttrName] = <<orm_last'.ret, orm_last'.at>>
          /\ (IsGet /\ orm_last.getter = 1 /\ orm_desc.cache_timeout > 0) =>
                IF orm_last'.at - orm_last.at <= orm_desc.cache_timeout
                THEN orm_last'.getter = 0 /\ orm_last'.ret = orm_last.ret
                ELSE orm_last'.getter = 1]_vars

\* a read served from the cache filled by the read before it
C12_Witness ==
    /\ IsGet /\ Succeeded
    /\ orm_last.getter = 0
    /\ FoundFresh
    /\ orm_last.before[AttrName][2] > 0
    /\ orm_last.at > orm_last.before[AttrName][2]

\* C13: right after every successful write (of a value or of None) and after
\* every delete, with or without a remover, the instance cache holds no
\* entry for the attribute, so the next read cannot be served from an entry
\* cached before the write or delete.
C13_Invalidated ==
    ((IsSet /\ Succeeded) \/ IsDelete) => AttrName \notin DOMAIN orm_cache

\* a delete without a remover found a fresh entry and removed it
C13_Witness ==
    /\ IsDelete
    /\ ~orm_desc.remover
    /\ FoundFresh
    /\ AttrName \notin DOMAIN orm_cache

\* C13 (reads): the read that follows a successful write or a delete is not
\* served from the cache.
C13_NextReadNotCached ==
    [][(/\ (IsSet /\ Succeeded) \/ IsDelete
        /\ orm_last'.op = "get"
        /\ Readable)
       => orm_last'.getter = 1]_vars

\* C14: a write of a value other than None to an attribute that is not
\* changeable fails with the "read-only" AttributeError, calls neither the
\* setter nor the remover and leaves the cache as it was; the read that
\* follows returns what a read before the write would have returned.
C14_ReadOnly ==
    [][(/\ orm_last'.op = "set"
        /\ orm_last' /= orm_last
        /\ orm_last'.value /= None
        /\ ~orm_desc.changeable)
       => /\ orm_last'.exc = "AttributeError: read-only"
          /\ orm_last'.setter = 0
          /\ orm_last'.remover = <<>>
          /\ orm_cache' = orm_cache
          /\ orm_store' = orm_store
          /\ __get__(orm_desc, orm_cache', orm_store', orm_now').ret
               = __get__(orm_desc, orm_cache, orm_store, orm_now).ret]_vars

\* a refused write to a readable attribute with a cached value
C14_Witness ==
    /\ IsSet
    /\ orm_last.value /= None
    /\ ~orm_desc.changeable
    /\ orm_last.exc = "AttributeError: read-only"
    /\ Readable
    /\ FoundEntry

\* C15: the outcome of writing None is decided by nullable alone: the
\* "not nullable" AttributeError when nullable is false; when nullable is
\* true the remover is called with (instance, None), the write succeeds and
\* the cache entry is removed, whatever changeable is.
C15_NullByNullable ==
    [][(/\ orm_last'.op = "set"
        /\ orm_last' /= orm_last
        /\ orm_last'.value = None)
       => IF ~orm_desc.nullable
          THEN orm_last'.exc = "AttributeError: not nullable"
          ELSE /\ orm_last'.exc = "ok"
               /\ orm_last'.remover = <<None>>
               /\ AttrName \notin DOMAIN orm_cache']_vars

(***************************************************************************)
(* logwrap (classmods/_decorators.py): a decorator that gives a message    *)
(* to the logger before the wrapped function runs, when it raises and      *)
(* after it has returned.                                                  *)
(***************************************************************************)

\* logging.DEBUG, logging.INFO, logging.WARNING, logging.ERROR
DEBUG == 10
INFO == 20
WARNING == 30
ERROR == 40

\* what stands where a level is expected: its class, and the name or number
LevelValue(t, name, n) == [t |-> t, name |-> name, n |-> n]
LevelName(name) == LevelValue("str", name, 0)
LevelInt(n) == LevelValue("int", "-", n)
LevelFloat == LevelValue("float", "3.5", 0)
LevelFunction(name) == LevelValue("function", name, 0)

\* the attributes of the logging module: the upper-case names are the int
\* levels, the lower-case names are the module's logging functions
logging ==
    [name \in {"DEBUG", "INFO", "WARNING", "ERROR",
               "debug", "info", "warning", "error"} |->
        CASE name = "DEBUG" -> LevelInt(DEBUG)
          [] name = "INFO" -> LevelInt(INFO)
          [] name = "WARNING" -> LevelInt(WARNING)
          [] name = "ERROR" -> LevelInt(ERROR)
          [] OTHER -> LevelFunction(name)]

\* getattr(module, name, default)
getattr(module, name, default) ==
    IF name \in DOMAIN module THEN module[name] ELSE default

\* what stands where a message is expected: a str template with the fields
\* it refers to, or something that is not a str
MsgValue(t, text, fields) == [t |-> t, text |-> text, fields |-> fields]
Template(text, fields) == MsgValue("str", text, fields)
NotStr == MsgValue("int", "5", {})
NoMsg == MsgValue("-", "-", {})

\* an option of logwrap: None, a bool, a str or a tuple of length len
Option(t, b, len, level, msg, predicate) ==
    [t |-> t, b |-> b, len |-> len, level |-> level, msg |-> msg,
     predicate |-> predicate]
OptNone == Option("NoneType", FALSE, 0, LevelInt(0), NoMsg, "None")
OptBool(b) == Option("bool", b, 0, LevelInt(0), NoMsg, "None")
OptStr(msg) == Option("str", FALSE, 0, LevelInt(0), msg, "None")
OptTuple2(level, msg) == Option("tuple", FALSE, 2, level, msg, "None")
OptTuple3(level, msg, predicate) ==
    Option("tuple", FALSE, 3, level, msg, predicate)
OptTuple1(level) == Option("tuple", FALSE, 1, level, NoMsg, "None")

\* what normalize returns: None, or (level, msg, predicate)
Normalized(on, level, msg, predicate) ==
    [exc |-> "ok", on |-> on, level |-> level, msg |-> msg,
     predicate |-> predicate]
NormalizedNone == Normalized(FALSE, 0, NoMsg, "None")

\* normalize(default_level, default_msg, option)
normalize(default_level, default_msg, option) ==
    IF option.t = "NoneType" \/ (option.t = "bool" /\ ~option.b)
    THEN NormalizedNone
    ELSE IF option.t = "bool"
    THEN Normalized(TRUE, default_level, default_msg, "None")
    ELSE IF option.t = "str"
    THEN Normalized(TRUE, default_level, option.msg, "None")
    ELSE IF option.t = "tuple"
    THEN IF option.len \notin {2, 3}
         THEN [exc |-> "IndexError"]
         ELSE LET predicate ==
                      IF option.len = 2 THEN "None" ELSE option.predicate
                  level ==
                      IF option.level.t = "str"
                      THEN getattr(logging, option.level.name,
                                   LevelInt(default_level))
                      ELSE option.level
              IN  IF level.t /= "int" \/ option.msg.t /= "str"
                  THEN NormalizedNone
                  ELSE Normalized(TRUE, level.n, option.msg, predicate)
    ELSE NormalizedNone

\* the default messages of the three stages
DefaultBefore == Template("Calling {func} - kwargs={kwargs}", {"func", "kwargs"})
DefaultOnException == Template("Error in {func}: {e}", {"func", "e"})
DefaultAfter ==
    Template("Function {func} ended. result={result}", {"func", "result"})

\* logwrap(before, on_exception, after): the normalized options, or the
\* exception raised while decorating
logwrap(before, on_exception, after, is_async) ==
    LET before_n == normalize(DEBUG, DefaultBefore, before)
        on_exception_n == normalize(ERROR, DefaultOnException, on_exception)
        after_n == normalize(INFO, DefaultAfter, after)
    IN  IF before_n.exc /= "ok" THEN [exc |-> before_n.exc]
        ELSE IF on_exception_n.exc /= "ok" THEN [exc |-> on_exception_n.exc]
        ELSE IF after_n.exc /= "ok" THEN [exc |-> after_n.exc]
        ELSE [exc |-> "ok",
              before |-> before, on_exception |-> on_exception,
              after |-> after,
              before_n |-> before_n, on_exception_n |-> on_exception_n,
              after_n |-> after_n,
              is_async |-> is_async]

\* the decorated function: def process(size, my_kwarg=0)
func ==
    [name |-> "process",
     params |-> <<"size", "my_kwarg">>,
     defaults |-> [my_kwarg |-> 0]]

ParamIndex(f, p) == CHOOSE i \in 1..Len(f.params) : f.params[i] = p

\* build_context(args, kwargs): sig.bind, apply_defaults and the context
build_context(f, args, kwargs) ==
    LET n == Len(f.params)
        names == {f.params[i] : i \in 1..n}
        given(i) == i <= Len(args) \/ f.params[i] \in DOMAIN kwargs
        binds ==
            /\ Len(args) <= n
            /\ DOMAIN kwargs \subseteq names
            /\ \A i \in 1..Len(args) : f.params[i] \notin DOMAIN kwargs
            /\ \A i \in 1..n : given(i) \/ f.params[i] \in DOMAIN f.defaults
        argument(i) ==
            IF i <= Len(args) THEN args[i]
            ELSE IF f.params[i] \in DOMAIN kwargs THEN kwargs[f.params[i]]
            ELSE f.defaults[f.params[i]]
    IN  IF ~binds THEN [exc |-> "TypeError"]
        ELSE [exc |-> "ok",
              ctx |-> [func |-> f.name,
                       args |-> [i \in 1..n |-> argument(i)],
                       kwargs |-> [p \in names |->
                                      argument(ParamIndex(f, p))]]]

\* an assignment to the context that is lost
WithKeyLost(ctx, key, value) == ctx

\* fmt_context[key] = value
WithKey(ctx, key, value) ==
    [k \in DOMAIN ctx \cup {key} |-> IF k = key THEN value ELSE ctx[k]]

\* msg.format(**fmt_context): the text with the value of each field, or the
\* KeyError of a field the context does not have
format(msg, ctx) ==
    IF msg.fields \subseteq DOMAIN ctx
    THEN [exc |-> "ok", text |-> msg.text,
          values |-> [k \in msg.fields |-> ctx[k]]]
    ELSE [exc |-> "KeyError", text |-> msg.text, values |-> <<>>]

\* the predicates: only_large_inputs of the tests, and one that says no
LargeInput == 100
predicate(p, ctx) ==
    CASE p = "only_large_inputs" ->
            (IF "size" \in DOMAIN ctx.kwargs THEN ctx.kwargs["size"] ELSE 0)
                > LargeInput
      [] p = "never" -> FALSE
      [] OTHER -> TRUE

\* what an invocation does, in order
Event(kind, stage, level, msg, ctx) ==
    [kind |-> kind, stage |-> stage, level |-> level, msg |-> msg,
     ctx |-> ctx]
\* log_obj.log(level, message)
Log(stage, level, message, ctx) == Event("log", stage, level, message, ctx)
\* the wrapped function starts, returns, raises
Started == Event("call", "-", 0, <<>>, <<>>)
Returned == Event("return", "-", 0, <<>>, <<>>)
Raised == Event("raise", "-", 0, <<>>, <<>>)

\* one stage of the wrapper:
\*   if n: level, msg, predicate = n
\*         if predicate is None or predicate(fmt_context): log_obj.log(...)
stage(name, n, ctx) ==
    IF ~n.on THEN [exc |-> "ok", events |-> <<>>]
    ELSE IF n.predicate = "None" \/ predicate(n.predicate, ctx)
    THEN LET message == format(n.msg, ctx) IN
         IF message.exc /= "ok"
         THEN [exc |-> message.exc, events |-> <<>>]
         ELSE [exc |-> "ok",
               events |-> <<Log(name, n.level, message, ctx)>>]
    ELSE [exc |-> "ok", events |-> <<>>]

\* what the wrapped function does when it runs: it returns a value or raises
Run(kind, value, exception) ==
    [kind |-> kind, value |-> value, exception |-> exception]
Returns(value) == Run("return", value, "-")
Raises(exception) == Run("raise", 0, exception)
\* the classes caught by `except Exception`
IsException(exception) == exception \in {"RuntimeError"}

\* the outcome of a wrapper: what it did, the exception or "ok", the return
Result(events, exc, ret) == [events |-> events, exc |-> exc, ret |-> ret]

\* a wrapper that logs the exception and returns None where the source
\* re-raises
sync_wrapper_swallowing(cfg, f, args, kwargs, run) ==
    LET built == build_context(f, args, kwargs) IN
    IF built.exc /= "ok" THEN Result(<<>>, built.exc, <<>>)
    ELSE
    LET fmt_context == built.ctx
        before == stage("before", cfg.before_n, fmt_context)
    IN
    IF before.exc /= "ok" THEN Result(before.events, before.exc, <<>>)
    ELSE IF run.kind = "return"
    THEN LET after == stage("after", cfg.after_n,
                            WithKey(fmt_context, "result", run.value))
         IN  Result(before.events \o <<Started, Returned>> \o after.events,
                    after.exc,
                    IF after.exc = "ok" THEN <<run.value>> ELSE <<>>)
    ELSE IF IsException(run.exception)
    THEN LET on_exception ==
                 stage("on_exception", cfg.on_exception_n,
                       WithKey(fmt_context, "e", run.exception))
         IN  Result(before.events \o <<Started, Raised>>
                        \o on_exception.events,
                    on_exception.exc, <<>>)
    ELSE Result(before.events \o <<Started, Raised>>, run.exception, <<>>)

\* sync_wrapper(*args, **kwargs)
sync_wrapper(cfg, f, args, kwargs, run) ==
    LET built == build_context(f, args, kwargs) IN
    IF built.exc /= "ok" THEN Result(<<>>, built.exc, <<>>)
    ELSE
    LET fmt_context == built.ctx
        before == stage("before", cfg.before_n, fmt_context)
    IN
    IF before.exc /= "ok" THEN Result(before.events, before.exc, <<>>)
    ELSE IF run.kind = "return"
    THEN \* result = func(...); fmt_context['result'] = result; after; return
         LET after == stage("after", cfg.after_n,
                            WithKey(fmt_context, "result", run.value))
         IN  Result(before.events \o <<Started, Returned>> \o after.events,
                    after.exc,
                    IF after.exc = "ok" THEN <<run.value>> ELSE <<>>)
    ELSE IF IsException(run.exception)
    THEN \* except Exception as e: fmt_context['e'] = e; on_exception; raise
         LET on_exception ==
                 stage("on_exception", cfg.on_exception_n,
                       WithKey(fmt_context, "e", run.exception))
         IN  Result(before.events \o <<Started, Raised>>
                        \o on_exception.events,
                    IF on_exception.exc = "ok" THEN run.exception
                    ELSE on_exception.exc,
                    <<>>)
    ELSE \* not caught by `except Exception`
         Result(before.events \o <<Started, Raised>>, run.exception, <<>>)

\* the frame of an async_wrapper: where it stands, what it did so far, its
\* fmt_context
Frame(pc, events, exc, fmt_context) ==
    [pc |-> pc, events |-> events, exc |-> exc, fmt_context |-> fmt_context]

\* async_wrapper(*args, **kwargs) up to `await func(*args, **kwargs)`
async_wrapper(cfg, f, args, kwargs) ==
    LET built == build_context(f, args, kwargs) IN
    IF built.exc /= "ok" THEN Frame("done", <<>>, built.exc, <<>>)
    ELSE LET before == stage("before", cfg.before_n, built.ctx) IN
         IF before.exc /= "ok"
         THEN Frame("done", before.events, before.exc, built.ctx)
         ELSE Frame("await", before.events \o <<Started>>, "ok", built.ctx)

\* an async_wrapper that runs its after stage on the context built before
\* the await
async_resume_stale(cfg, frame, run) ==
    IF run.kind = "raise"
    THEN IF IsException(run.exception) /\ cfg.on_exception_n.on
         THEN LET on_exception ==
                      stage("on_exception", cfg.on_exception_n,
                            frame.fmt_context)
              IN  Result(frame.events \o <<Raised>> \o on_exception.events,
                         IF on_exception.exc = "ok" THEN run.exception
                         ELSE on_exception.exc,
                         <<>>)
         ELSE Result(frame.events \o <<Raised>>, run.exception, <<>>)
    ELSE LET after == stage("after", cfg.after_n, frame.fmt_context)
         IN  Result(frame.events \o <<Returned>> \o after.events,
                    after.exc,
                    IF after.exc = "ok" THEN <<run.value>> ELSE <<>>)

\* async_wrapper from the point where the awaited function has finished
async_resume(cfg, frame, run) ==
    IF run.kind = "raise"
    THEN IF IsException(run.exception) /\ cfg.on_exception_n.on
         THEN LET fmt_context == WithKey(frame.fmt_context, "e",
                                         run.exception)
                  on_exception ==
                      stage("on_exception", cfg.on_exception_n, fmt_context)
              IN  Result(frame.events \o <<Raised>> \o on_exception.events,
                         IF on_exception.exc = "ok" THEN run.exception
                         ELSE on_exception.exc,
                         <<>>)
         ELSE Result(frame.events \o <<Raised>>, run.exception, <<>>)
    ELSE LET fmt_context == WithKey(frame.fmt_context, "result", run.value)
             after == stage("after", cfg.after_n, fmt_context)
         IN  Result(frame.events \o <<Returned>> \o after.events,
                    after.exc,
                    IF after.exc = "ok" THEN <<run.value>> ELSE <<>>)

\* the messages given in option strings and tuples, one per stage
BeforeTemplate == Template("Function starting {func} {args}", {"func", "args"})
OnExceptionTemplate == Template("Function failed: {e}", {"e"})
AfterTemplate == Template("Function ended: {result}", {"result"})

Predicates == {"only_large_inputs", "never"}

\* the values passed as an option of a stage
Options(template) ==
    {OptNone, OptBool(FALSE), OptBool(TRUE), OptStr(template),
     OptTuple2(LevelName("WARNING"), template),
     OptTuple2(LevelInt(WARNING), template),
     OptTuple2(LevelName("debug"), template),
     OptTuple2(LevelName("VERBOSE"), template),
     OptTuple2(LevelFloat, template),
     OptTuple2(LevelName("WARNING"), NotStr),
     OptTuple1(LevelName("WARNING"))}
    \cup {OptTuple3(LevelName("WARNING"), template, p) : p \in Predicates}

\* the calls of the tests: process(50), process(150), and other ways to
\* pass the arguments
SmallSize == 50
LargeSize == 150
OtherKwarg == 2
NoKwargs == <<>>
Calls ==
    {<<<<SmallSize>>, NoKwargs>>,
     <<<<LargeSize>>, NoKwargs>>,
     <<<<>>, [size |-> LargeSize]>>,
     <<<<SmallSize>>, [my_kwarg |-> OtherKwarg]>>,
     <<<<>>, NoKwargs>>}

ResultValue == 7
Runs == {Returns(ResultValue), Raises("RuntimeError"),
         Raises("KeyboardInterrupt")}
NoRun == Run("-", 0, "-")

\* an invocation of the wrapper and how it ended
Invocation(op, args, kwargs, run, exc, ret) ==
    [op |-> op, args |-> args, kwargs |-> kwargs, run |-> run,
     exc |-> exc, ret |-> ret]

InitLog ==
    /\ SpyIdle
    /\ OrmIdle
    /\ lw_cfg \in {logwrap(before, on_exception, after, is_async) :
                       before \in Options(BeforeTemplate),
                       on_exception \in Options(OnExceptionTemplate),
                       after \in Options(AfterTemplate),
                       is_async \in BOOLEAN}
    /\ lw_pending = <<>>
    /\ lw_log = <<>>
    /\ lw_last = [op |-> "init"]
    /\ SeIdle
    /\ SwIdle
    /\ NoThreads

\* process(*args, **kwargs) on the wrapper of a plain function
SyncCall(args, kwargs, run) ==
    /\ lw_cfg.exc = "ok"
    /\ ~lw_cfg.is_async
    /\ LET r == sync_wrapper(lw_cfg, func, args, kwargs, run) IN
       /\ lw_log' = r.events
       /\ lw_last' = Invocation("call", args, kwargs, run, r.exc, r.ret)
    /\ UNCHANGED <<lw_cfg, lw_pending>>
    /\ UNCHANGED lwFrame

\* await process(*args, **kwargs) on the wrapper of a coroutine function:
\* the wrapper runs up to its await
AsyncCall(args, kwargs) ==
    /\ lw_cfg.exc = "ok"
    /\ lw_cfg.is_async
    /\ lw_pending = <<>>
    /\ LET frame == async_wrapper(lw_cfg, func, args, kwargs) IN
       /\ lw_log' = frame.events
       /\ IF frame.pc = "await"
          THEN /\ lw_pending' = frame
               /\ lw_last' = Invocation("await", args, kwargs, NoRun,
                                        "ok", <<>>)
          ELSE /\ lw_pending' = <<>>
               /\ lw_last' = Invocation("call", args, kwargs, NoRun,
                                        frame.exc, <<>>)
    /\ UNCHANGED lw_cfg
    /\ UNCHANGED lwFrame

\* the awaited function finishes and the wrapper runs to its end
AsyncResume(run) ==
    /\ lw_pending /= <<>>
    /\ LET r == async_resume(lw_cfg, lw_pending, run) IN
       /\ lw_log' = r.events
       /\ lw_last' = Invocation("call", lw_last.args, lw_last.kwargs, run,
                                r.exc, r.ret)
    /\ lw_pending' = <<>>
    /\ UNCHANGED lw_cfg
    /\ UNCHANGED lwFrame

NextLog ==
    \/ \E call \in Calls, run \in Runs : SyncCall(call[1], call[2], run)
    \/ \E call \in Calls : AsyncCall(call[1], call[2])
    \/ \E run \in Runs : AsyncResume(run)

SpecLog == InitLog /\ [][NextLog]_vars

(***************************************************************************)
(* Properties of logwrap                                                   *)
(***************************************************************************)

Completed == lw_last.op = "call"
Position(event) == CHOOSE i \in 1..Len(lw_log) : lw_log[i] = event
Happened(event) == \E i \in 1..Len(lw_log) : lw_log[i] = event
\* the positions of the messages of a stage
Messages(name) ==
    {i \in 1..Len(lw_log) : lw_log[i].kind = "log" /\ lw_log[i].stage = name}
IsTrue(option) == option.t = "bool" /\ option.b

C17_Reraised ==
    (Completed /\ Happened(Raised)) =>
        /\ lw_last.exc = lw_last.run.exception
        /\ lw_last.ret = <<>>
        /\ \A i \in Messages("on_exception") :
              /\ i > Position(Raised)
              /\ lw_log[i].ctx["e"] = lw_last.run.exception
              /\ "e" \in DOMAIN lw_log[i].msg.values =>
                     lw_log[i].msg.values["e"] = lw_last.run.exception
        /\ Messages("after") = {}
        /\ ~Happened(Returned)
        /\ IsTrue(lw_cfg.on_exception) /\ IsException(lw_last.run.exception)
               => \E i \in Messages("on_exception") : lw_log[i].level = ERROR

\* on_exception=True and a RuntimeError: an ERROR message, then the raise
C17_Witness ==
    /\ Completed
    /\ IsTrue(lw_cfg.on_exception)
    /\ Happened(Raised)
    /\ lw_last.exc = "RuntimeError"
    /\ \E i \in Messages("on_exception") :
          lw_log[i].level = ERROR /\ lw_log[i].msg.values["e"] = "RuntimeError"

\* the exception is re-raised also when the on_exception predicate says no
C17_WitnessPredicateFails ==
    /\ Completed
    /\ lw_cfg.on_exception.len = 3
    /\ lw_cfg.on_exception.predicate = "never"
    /\ Happened(Raised)
    /\ lw_last.exc = "RuntimeError"
    /\ Messages("on_exception") = {}

\* the options of the three stages and what normalize made of them
StageNames == {"before", "on_exception", "after"}
OptionOf(name) ==
    CASE name = "before" -> lw_cfg.before
      [] name = "on_exception" -> lw_cfg.on_exception
      [] name = "after" -> lw_cfg.after
NormalizedOf(name) ==
    CASE name = "before" -> lw_cfg.before_n
      [] name = "on_exception" -> lw_cfg.on_exception_n
      [] name = "after" -> lw_cfg.after_n
DefaultLevel(name) ==
    CASE name = "before" -> DEBUG
      [] name = "on_exception" -> ERROR
      [] name = "after" -> INFO

\* the context the invocation built, and the one a stage works on
BuiltContext == build_context(func, lw_last.args, lw_last.kwargs)
ContextOf(name) ==
    CASE name = "before" -> BuiltContext.ctx
      [] name = "on_exception" ->
            WithKey(BuiltContext.ctx, "e", lw_last.run.exception)
      [] name = "after" -> WithKey(BuiltContext.ctx, "result", lw_last.run.value)

\* the invocation came to the stage
Reached(name) ==
    CASE name = "before" -> BuiltContext.exc = "ok"
      [] name = "on_exception" ->
            Happened(Raised) /\ IsException(lw_last.run.exception)
      [] name = "after" -> Happened(Returned)

\* the option is neither None nor False
Enabled(option) ==
    ~(option.t = "NoneType" \/ (option.t = "bool" /\ ~option.b))
\* the option has no predicate, or its predicate says yes
PredicatePasses(option, ctx) ==
    option.len /= 3 \/ predicate(option.predicate, ctx)

\* a (level, message) or (level, message, predicate) tuple with a str
\* message and a level that is no int and no name of a logging level
LevelNames == {"DEBUG", "INFO", "WARNING", "ERROR"}
InvalidLevel(option) ==
    /\ option.t = "tuple"
    /\ option.len \in {2, 3}
    /\ option.msg.t = "str"
    /\ \/ option.level.t = "str" /\ option.level.name \notin LevelNames
       \/ option.level.t \notin {"str", "int"}

\* C19: a stage whose tuple has an unknown or invalid level (a name that is
\* no level, a level name in the wrong case, a value that is neither a name
\* nor an int) raises nothing and logs at the default level of the stage.
C19_DefaultLevel ==
    Completed =>
        \A name \in StageNames :
            (/\ InvalidLevel(OptionOf(name))
             /\ Reached(name)
             /\ PredicatePasses(OptionOf(name), ContextOf(name)))
            => \E i \in Messages(name) : lw_log[i].level = DefaultLevel(name)

\* C19 for a name that is no attribute of logging: the default level is used
C19_UnknownName ==
    Completed =>
        \A name \in StageNames :
            (/\ InvalidLevel(OptionOf(name))
             /\ OptionOf(name).level.t = "str"
             /\ OptionOf(name).level.name \notin DOMAIN logging
             /\ Reached(name)
             /\ PredicatePasses(OptionOf(name), ContextOf(name)))
            => \E i \in Messages(name) : lw_log[i].level = DefaultLevel(name)

\* the option is of a documented shape: None, a bool, a str, or a tuple of
\* a level, a str message and perhaps a predicate
WellFormed(option) == option.t = "tuple" => option.msg.t = "str"

\* C18: a stage gives its message to the logger if and only if the
\* invocation reaches the stage, the option of the stage is neither None nor
\* False, and the option has no predicate or its predicate is true of the
\* context; each stage by its own option.
C18_Gated ==
    Completed =>
        \A name \in StageNames :
            WellFormed(OptionOf(name)) =>
                ((Messages(name) /= {}) <=>
                    /\ Reached(name)
                    /\ Enabled(OptionOf(name))
                    /\ PredicatePasses(OptionOf(name), ContextOf(name)))

\* C18 for options whose level is valid
C18_GatedValidLevels ==
    Completed =>
        \A name \in StageNames :
            (WellFormed(OptionOf(name)) /\ ~InvalidLevel(OptionOf(name))) =>
                ((Messages(name) /= {}) <=>
                    /\ Reached(name)
                    /\ Enabled(OptionOf(name))
                    /\ PredicatePasses(OptionOf(name), ContextOf(name)))

\* C18 (predicates): a predicate that says no changes neither whether the
\* wrapped function runs nor what the wrapper returns or raises.
C18_PredicateNeutral ==
    (Completed /\ BuiltContext.exc = "ok") =>
        /\ Happened(Started)
        /\ lw_last.run.kind = "return" =>
               lw_last.exc = "ok" /\ lw_last.ret = <<lw_last.run.value>>
        /\ lw_last.run.kind = "raise" => lw_last.exc = lw_last.run.exception

\* C20: with the same options, arguments and behaviour of the wrapped
\* function, the wrapper of a coroutine function gives the logger the same
\* messages with the same contexts in the same order as the wrapper of a
\* plain function, and ends the same way (same return value or exception).
C20_AsyncAsSync ==
    (Completed /\ lw_cfg.is_async) =>
        LET r == sync_wrapper(lw_cfg, func, lw_last.args, lw_last.kwargs,
                              lw_last.run)
        IN  /\ lw_log = r.events
            /\ lw_last.exc = r.exc
            /\ lw_last.ret = r.ret

\* C20 (suspension): while the coroutine wrapper waits for the wrapped
\* function, it has done what the plain wrapper does up to the call.
C20_SuspendedAtCall ==
    lw_pending /= <<>> =>
        /\ lw_cfg.is_async
        /\ lw_log[Len(lw_log)] = Started
        /\ \A i \in 1..(Len(lw_log) - 1) : lw_log[i].stage = "before"

\* a coroutine wrapper that logged before and after and returned the value
C20_Witness ==
    /\ Completed
    /\ lw_cfg.is_async
    /\ Messages("before") /= {}
    /\ Messages("after") /= {}
    /\ lw_last.ret = <<ResultValue>>

(***************************************************************************)
(* Further properties of MethodSpy                                         *)
(***************************************************************************)

\* C25: activate and deactivate change the _active flag of the spy they are
\* called on and nothing else: the registry, every list and its order, the
\* wrapper and the alias on the classes and the other spies stay as they
\* are; a deactivated spy stays in the list of its key.
C25_FlagOnly ==
    [][(/\ last'.op \in {"activate", "deactivate"}
        /\ <<last, spies, spies_registery, classDict>>'
               /= <<last, spies, spies_registery, classDict>>)
       => /\ spies_registery' = spies_registery
          /\ classDict' = classDict
          /\ Len(spies') = Len(spies)
          /\ \A s \in 1..Len(spies) :
                spies'[s] =
                    IF s = last'.spy
                    THEN [spies[s] EXCEPT
                              !._active = (last'.op = "activate")]
                    ELSE spies[s]]_vars

\* the last active spy of a key was deactivated: it is still registered
\* and the wrapper is still on the class
C25_Witness ==
    /\ last.op = "deactivate"
    /\ InList(Handlers(<<last.target, last.name>>), last.spy)
    /\ ActiveHandlers(<<last.target, last.name>>) = <<>>
    /\ Wrapped(last.target, last.name)
    /\ HasAttr(classDict, last.target, _create_original_name(last.name))

\* C28: a registration that fails because the class has no such method
\* leaves everything as it was: no key is added to the registry, nothing is
\* installed on the class and no spy is recorded.
C28_FailedRegistration ==
    [][(/\ last'.op = "register"
        /\ last'.exc /= "ok"
        /\ last' /= last)
       => /\ spies_registery' = spies_registery
          /\ classDict' = classDict
          /\ spies' = spies]_vars

\* C28 (the class): a failed registration installs nothing on the class and
\* records no spy.
C28_NothingInstalled ==
    [][(/\ last'.op = "register"
        /\ last'.exc /= "ok"
        /\ last' /= last)
       => /\ classDict' = classDict
          /\ spies' = spies]_vars

\* Sub inherits the plain method m from Base
SubInherits ==
    /\ "m" \in DOMAIN classDef["Base"]
    /\ classDef["Base"]["m"].tag = "function"
    /\ "m" \notin DOMAIN classDef["Sub"]

\* every call of m, on either class, does what it did before any spy
BehavesAsDefined ==
    \A t \in Types, style \in CallStyles, a \in ArgLists :
        CallMethod(classDef, t, style, "m", a, 0).exc = "ok" =>
            CallMethod(classDict, t, style, "m", a, 0)
                = CallMethod(classDef, t, style, "m", a, 0)

\* C29: when Sub inherits m from Base, registrations and removals on the
\* keys (Base, m) and (Sub, m), in any order, raise nothing; every call
\* runs the original exactly once; and when the spies of both keys are all
\* removed, m behaves on both classes as before and neither class has an
\* alias.
C29_RelatedKeys ==
    SubInherits =>
        /\ last.op \in {"register", "remove"} => last.exc = "ok"
        /\ (IsCall /\ last.raiser = 0) =>
               /\ last.res.exc = "ok"
               /\ Len(Originals(last.res)) = 1
        /\ (spies /= <<>> /\ \A s \in 1..Len(spies) : Removed(s)) =>
               /\ BehavesAsDefined
               /\ \A t \in Types :
                     ~HasAttr(classDict, t, _create_original_name("m"))

\* C29 for the key (Base, m) alone: with no spy on Sub, Base.m and the
\* inherited Sub.m are restored when the spies of (Base, m) are removed.
C29_BaseKeyAlone ==
    (SubInherits /\ \A s \in 1..Len(spies) : spies[s].target = "Base") =>
        /\ last.op \in {"register", "remove"} =>
               last.exc \in {"ok", "ValueError"}
        /\ (IsCall /\ last.raiser = 0) =>
               /\ last.res.exc = "ok"
               /\ Len(Originals(last.res)) = 1
        /\ (spies /= <<>> /\ \A s \in 1..Len(spies) : Removed(s)) =>
               /\ BehavesAsDefined
               /\ \A t \in Types :
                     ~HasAttr(classDict, t, _create_original_name("m"))

(***************************************************************************)
(* Further properties of ORMDescriptor                                     *)
(***************************************************************************)

\* C26: a write of a value other than None is checked in this order and
\* fails at the first check that does not pass: "read-only" unless
\* changeable, then the type error unless the value is an instance of the
\* declared class, then the validation error if a validator is configured
\* and rejects the value. The setter is called if and only if all checks
\* pass; a failed write calls neither setter nor remover and leaves the
\* cache as it was.
C26_CheckOrder ==
    [][(/\ orm_last'.op = "set"
        /\ orm_last' /= orm_last
        /\ orm_last'.value /= None)
       => LET value == orm_last'.value
              expected ==
                  IF ~orm_desc.changeable THEN "AttributeError: read-only"
                  ELSE IF ~isinstance(value, orm_desc.type.raw_class)
                  THEN "ValueError: type"
                  ELSE IF orm_desc.validator /\ value.v = "bad"
                  THEN "ValueError: validation"
                  ELSE "ok"
          IN  /\ orm_last'.exc = expected
              /\ (orm_last'.setter = 1) <=> (expected = "ok")
              /\ expected = "ok" => orm_store' = value
              /\ expected /= "ok" =>
                     /\ orm_last'.setter = 0
                     /\ orm_last'.remover = <<>>
                     /\ orm_cache' = orm_cache
                     /\ orm_store' = orm_store]_vars

\* a write that passed the first two checks and failed the third, with an
\* entry in the cache
C26_Witness ==
    /\ IsSet
    /\ orm_last.exc = "ValueError: validation"
    /\ orm_desc.changeable
    /\ FoundEntry
    /\ orm_cache = orm_last.before

\* the entry of the attribute is in the cache and not older than the timeout
Fresh ==
    /\ AttrName \in DOMAIN orm_cache
    /\ orm_now - orm_cache[AttrName][2] <= orm_desc.cache_timeout

\* what the declared type makes of the value the getter returns
Converted(value) ==
    IF orm_desc.type.constructor
    THEN PyValue(orm_desc.type.raw_class, value.v, "constructor")
    ELSE IF value.t = orm_desc.type.raw_class THEN value
    ELSE PyValue(orm_desc.type.raw_class, value.v, "raw_class")

\* C27: a read of an attribute that is not sensitive returns the cached
\* value without calling the getter if and only if the cache holds an entry
\* of the name with now - cachedAt <= cache_timeout; otherwise it fails
\* with the "no getter" error when there is no getter, else it calls the
\* getter once, returns the converted value and stores (value, now) only
\* when cache_timeout > 0; with cache_timeout = 0 a read never adds an
\* entry and every read that finds no entry calls the getter.
C27_ReadSemantics ==
    [][(/\ orm_last'.op = "get"
        /\ <<orm_last, orm_cache>>' /= <<orm_last, orm_cache>>
        /\ ~orm_desc.sensitive)
       => /\ (orm_last'.exc = "ok" /\ orm_last'.getter = 0) <=> Fresh
          /\ Fresh =>
                /\ orm_last'.ret = orm_cache[AttrName][1]
                /\ orm_cache' = orm_cache
          /\ (~Fresh /\ ~orm_desc.getter) =>
                /\ orm_last'.exc = "AttributeError: no getter"
                /\ orm_last'.getter = 0
                /\ orm_cache' = orm_cache
          /\ (~Fresh /\ orm_desc.getter) =>
                /\ orm_last'.exc = "ok"
                /\ orm_last'.getter = 1
                /\ orm_last'.ret = Converted(orm_store)
                /\ orm_cache' =
                       IF orm_desc.cache_timeout > 0
                       THEN (AttrName :> <<orm_last'.ret, orm_now>>)
                       ELSE orm_cache
          /\ orm_desc.cache_timeout = 0 =>
                /\ orm_cache' = orm_cache
                /\ (orm_cache = <<>> /\ orm_desc.getter) =>
                       orm_last'.getter = 1]_vars

\* a read found an entry older than the timeout, called the getter,
\* converted an int to the declared str and stored the new entry
C27_Witness ==
    /\ IsGet
    /\ Succeeded
    /\ FoundEntry
    /\ ~FoundFresh
    /\ orm_last.getter = 1
    /\ orm_last.stored.t = "int"
    /\ orm_last.ret.t = "str"
    /\ orm_cache[AttrName] = <<orm_last.ret, orm_last.at>>

(***************************************************************************)
(* suppress_errors (classmods/_decorators.py): a decorator that returns a  *)
(* fallback where the wrapped function raises.                             *)
(***************************************************************************)

\* classes and other values given as fallback
PyClass(name) == PyValue("type", name, "literal")
PyBool(name) == PyValue("bool", name, "literal")
Fallbacks ==
    {PyClass("Exception"), PyClass("ValueError"), PyClass("int"),
     PyBool("True"), PyBool("False"), PyStr("Failed"), None}

\* the classes derived from Exception, and the exception classes
DerivedFromException ==
    {"Exception", "ValueError", "ZeroDivisionError", "RuntimeError"}
ExceptionClasses == DerivedFromException \cup {"KeyboardInterrupt"}

\* the exception object a raise statement makes of a class
ExceptionObject(class) == PyValue(class, "This is test Error", "raise")

\* what the decorated function does when it is called
Does(kind, value) == [kind |-> kind, value |-> value]
FuncReturns(value) == Does("return", value)
FuncRaises(class) == Does("raise", ExceptionObject(class))
FuncRuns ==
    {FuncReturns(PyInt("1")), FuncReturns(None)}
    \cup {FuncRaises(class) : class \in
              {"Exception", "ValueError", "ZeroDivisionError",
               "KeyboardInterrupt"}}
FuncArgs == {<<>>, <<"x1">>, <<"x2">>}

\* suppress_errors(fallback)(func)(*args): the exception that leaves the
\* wrapper or "ok", and the value returned
suppress_errors(fallback, run) ==
    IF run.kind = "return"
    THEN [exc |-> "ok", ret |-> run.value]
    ELSE IF run.value.t \in DerivedFromException
    THEN IF fallback = PyClass("Exception")
         THEN [exc |-> "ok", ret |-> run.value]
         ELSE [exc |-> "ok", ret |-> fallback]
    ELSE [exc |-> run.value.t, ret |-> NoValue]

InitSuppress ==
    /\ SpyIdle
    /\ OrmIdle
    /\ LwIdle
    /\ SwIdle
    /\ NoThreads
    /\ se_fallback \in Fallbacks
    /\ se_last = [op |-> "init"]

\* a call of the decorated function
CallSuppressed(args, run) ==
    /\ LET r == suppress_errors(se_fallback, run) IN
       se_last' = [op |-> "call", args |-> args, run |-> run,
                   exc |-> r.exc, ret |-> r.ret]
    /\ UNCHANGED se_fallback
    /\ UNCHANGED <<spyVars, ormVars, lwVars, swVars, threads, orm_pending>>

NextSuppress == \E args \in FuncArgs, run \in FuncRuns : CallSuppressed(args, run)

SpecSuppress == InitSuppress /\ [][NextSuppress]_vars

\* C21: the decorated function never lets an exception derived from
\* Exception out: it returns what the function returns, and when the
\* function raises it returns the caught exception object if the fallback
\* is an exception class, and the fallback itself otherwise.
C21_Suppressed ==
    se_last.op = "call" =>
        LET run == se_last.run IN
        /\ run.kind = "return" =>
               se_last.exc = "ok" /\ se_last.ret = run.value
        /\ (run.kind = "raise" /\ run.value.t \in DerivedFromException) =>
               /\ se_last.exc = "ok"
               /\ se_last.ret =
                      IF /\ se_fallback.t = "type"
                         /\ se_fallback.v \in ExceptionClasses
                      THEN run.value
                      ELSE se_fallback

\* C21 with `the class Exception` in place of `an exception class`
C21_SuppressedException ==
    se_last.op = "call" =>
        LET run == se_last.run IN
        /\ run.kind = "return" =>
               se_last.exc = "ok" /\ se_last.ret = run.value
        /\ (run.kind = "raise" /\ run.value.t \in DerivedFromException) =>
               /\ se_last.exc = "ok"
               /\ se_last.ret =
                      IF se_fallback = PyClass("Exception")
                      THEN run.value
                      ELSE se_fallback

(***************************************************************************)
(* SuperWith (classmods/_super_with.py): several context managers entered  *)
(* by one with statement, over the ExitStack / AsyncExitStack of           *)
(* contextlib.                                                             *)
(***************************************************************************)

MaxContexts == 2

\* a context manager: the protocols it implements ("sync": __enter__ and
\* __exit__, "async": __aenter__ and __aexit__), what entering it does and
\* what its exit method does (returns false, returns true, raises)
Context(caps, enter, exit) == [caps |-> caps, enter |-> enter, exit |-> exit]
Capabilities == {"sync", "async", "both"}
Contexts ==
    {Context(caps, enter, exit) :
        caps \in Capabilities, enter \in {"ok", "raise"},
        exit \in {"false", "true", "raise"}}
ContextTuples == UNION {[1..n -> Contexts] : n \in 0..MaxContexts}

\* hasattr(ctx, "__enter__") and hasattr(ctx, "__exit__"), and the same of
\* __aenter__ and __aexit__
Implements(ctx, mode) == ctx.caps \in {mode, "both"}

\* the events of the contexts
Entered(i) == <<"enter", i>>
Exited(i) == <<"exit", i>>

\* the state of one walk through the with statement
At(pc, mode, body, exc, ret) ==
    [pc |-> pc, mode |-> mode, body |-> body, exc |-> exc, ret |-> ret]

\* what __enter__ returns: the one object entered, or the tuple of them
AsTarget(entered) == [unpacked |-> Len(entered) = 1, objs |-> entered]
NoTarget == [unpacked |-> FALSE, objs |-> <<>>]

\* ExitStack.enter_context / AsyncExitStack.enter_async_context for the
\* contexts from the i-th on: a context that is entered is pushed on the
\* stack; the first enter that raises ends the walk
RECURSIVE enter_context(_, _, _, _)
enter_context(contexts, i, stack, log) ==
    IF i > Len(contexts)
    THEN [exc |-> "none", stack |-> stack, log |-> log]
    ELSE IF contexts[i].enter = "raise"
    THEN [exc |-> "EnterError", stack |-> stack, log |-> log]
    ELSE enter_context(contexts, i + 1, Append(stack, i),
                       Append(log, Entered(i)))

\* ExitStack.__exit__ / AsyncExitStack.__aexit__: the callbacks are popped
\* from the end; a callback that returns true clears the exception, one
\* that raises replaces it
RECURSIVE ExitCallbacksFifo(_, _, _, _, _, _)
ExitCallbacksFifo(contexts, stack, exc, pending_raise, suppressed_exc, log) ==
    IF stack = <<>>
    THEN [exc |-> exc, pending_raise |-> pending_raise,
          suppressed_exc |-> suppressed_exc, log |-> log]
    ELSE LET i == Head(stack)
             rest == Tail(stack)
             logged == Append(log, Exited(i))
         IN  IF contexts[i].exit = "true"
             THEN ExitCallbacksFifo(contexts, rest, "none", FALSE, TRUE, logged)
             ELSE IF contexts[i].exit = "raise"
             THEN ExitCallbacksFifo(contexts, rest, "ExitError", TRUE,
                                    suppressed_exc, logged)
             ELSE ExitCallbacksFifo(contexts, rest, exc, pending_raise,
                                    suppressed_exc, logged)

RECURSIVE ExitCallbacks(_, _, _, _, _, _)
ExitCallbacks(contexts, stack, exc, pending_raise, suppressed_exc, log) ==
    IF stack = <<>>
    THEN [exc |-> exc, pending_raise |-> pending_raise,
          suppressed_exc |-> suppressed_exc, log |-> log]
    ELSE LET i == stack[Len(stack)]
             rest == SubSeq(stack, 1, Len(stack) - 1)
             logged == Append(log, Exited(i))
         IN  IF contexts[i].exit = "true"
             THEN ExitCallbacks(contexts, rest, "none", FALSE, TRUE, logged)
             ELSE IF contexts[i].exit = "raise"
             THEN ExitCallbacks(contexts, rest, "ExitError", TRUE,
                                suppressed_exc, logged)
             ELSE ExitCallbacks(contexts, rest, exc, pending_raise,
                                suppressed_exc, logged)

\* the exception that leaves the with statement: the one raised by
\* ExitStack.__exit__, or the exception of the body where __exit__ returns
\* a false value
Propagated(exc, out) ==
    IF out.pending_raise THEN out.exc
    ELSE IF exc # "none" /\ ~out.suppressed_exc THEN exc
    ELSE "none"

\* the stack that `with` uses and the one that `async with` uses
StackOf(mode) == IF mode = "sync" THEN "sync_stack" ELSE "async_stack"

\* SuperWith(*contexts)
InitWith ==
    /\ SpyIdle
    /\ OrmIdle
    /\ LwIdle
    /\ SeIdle
    /\ NoThreads
    /\ sw_contexts \in ContextTuples
    /\ sw_stack = [sync_stack |-> <<>>, async_stack |-> <<>>]
    /\ sw_log = <<>>
    /\ sw_last = At("constructed", "none", "none", "none", NoTarget)

swFrame == <<spyVars, ormVars, lwVars, seVars, threads, orm_pending>>

\* SuperWith.__enter__ (mode "sync") and SuperWith.__aenter__ ("async")
SuperWithEnter(mode) ==
    /\ sw_last.pc = "constructed"
    /\ IF \E i \in DOMAIN sw_contexts : ~Implements(sw_contexts[i], mode)
       THEN /\ sw_last' = At("raised", mode, "none", "TypeError", NoTarget)
            /\ UNCHANGED <<sw_stack, sw_log>>
       ELSE LET r == enter_context(sw_contexts, 1, sw_stack[StackOf(mode)],
                                   sw_log)
            IN  /\ sw_stack' = [sw_stack EXCEPT ![StackOf(mode)] = r.stack]
                /\ sw_log' = r.log
                /\ sw_last' =
                       IF r.exc # "none"
                       THEN At("raised", mode, "none", r.exc, NoTarget)
                       ELSE At("entered", mode, "none", "none",
                               AsTarget([i \in DOMAIN sw_contexts |-> i]))
    /\ UNCHANGED sw_contexts
    /\ UNCHANGED swFrame

\* the body of the with statement runs: it completes or it raises
Body(exc) ==
    /\ sw_last.pc = "entered"
    /\ sw_last' = At("body", sw_last.mode, exc, exc, sw_last.ret)
    /\ UNCHANGED <<sw_contexts, sw_stack, sw_log>>
    /\ UNCHANGED swFrame

\* SuperWith.__exit__ and SuperWith.__aexit__, called by the with statement
\* with the exception of the body
SuperWithExit ==
    /\ sw_last.pc = "body"
    /\ LET mode == sw_last.mode
           out == ExitCallbacks(sw_contexts, sw_stack[StackOf(mode)],
                                sw_last.body, FALSE, FALSE, sw_log)
       IN  /\ sw_stack' = [sw_stack EXCEPT ![StackOf(mode)] = <<>>]
           /\ sw_log' = out.log
           /\ sw_last' = At("done", mode, sw_last.body,
                            Propagated(sw_last.body, out), sw_last.ret)
    /\ UNCHANGED sw_contexts
    /\ UNCHANGED swFrame

NextWith ==
    \/ \E mode \in {"sync", "async"} : SuperWithEnter(mode)
    \/ \E exc \in {"none", "BodyError"} : Body(exc)
    \/ SuperWithExit

SpecWith == InitWith /\ [][NextWith]_vars

(***************************************************************************)
(* Properties of SuperWith                                                 *)
(***************************************************************************)

\* the events of entering the contexts 1..n in order, and of leaving them
\* in reverse order
Enters(n) == [i \in 1..n |-> Entered(i)]
Exits(n) == [i \in 1..n |-> Exited(n + 1 - i)]

\* the contexts are entered in the order given, and when the block has
\* ended each one is exited once, in reverse order
InOrder ==
    /\ sw_last.pc \in {"entered", "body"} =>
           sw_log = Enters(Len(sw_contexts))
    /\ sw_last.pc = "done" =>
           sw_log = Enters(Len(sw_contexts)) \o Exits(Len(sw_contexts))

\* some context has an exit method that returns true / that raises
SomeExit(what) == \E i \in DOMAIN sw_contexts : sw_contexts[i].exit = what

\* C22 as stated: SuperWith enters its contexts in the order given and
\* exits every entered context exactly once in reverse order when the block
\* ends, on normal completion and when the body raises; the exception of
\* the body then propagates to the caller unless a context suppresses it.
C22_EnterExitOrder ==
    /\ InOrder
    /\ (sw_last.pc = "done" /\ sw_last.body # "none" /\ ~SomeExit("true")) =>
           sw_last.exc = sw_last.body

\* C22 amended: the order of entering and exiting is as stated; the
\* exception of the body propagates to the caller unless a context
\* suppresses it or the exit method of a context raises, and in the latter
\* case the exception of the exit method propagates in its place.
C22_EnterExitOrderAmended ==
    /\ InOrder
    /\ (sw_last.pc = "done" /\ sw_last.body # "none" /\ ~SomeExit("true")) =>
           sw_last.exc = IF SomeExit("raise") THEN "ExitError"
                         ELSE sw_last.body

\* two contexts were entered, the body raised, both contexts were exited
\* and the exception of the body reached the caller
C22_Witness ==
    /\ sw_last.pc = "done"
    /\ Len(sw_contexts) = 2
    /\ sw_last.body = "BodyError"
    /\ sw_last.exc = "BodyError"
    /\ sw_log = <<Entered(1), Entered(2), Exited(2), Exited(1)>>

(***************************************************************************)
(* ORMDescriptor under threads: __get__ and __set__ hold no lock, so the   *)
(* statements of two accesses of one attribute of one instance interleave. *)
(***************************************************************************)

OrmThreads == 2     \* threads that access the attribute
MaxWrites == 2      \* calls of the setter in one behaviour

\* a thread outside an access, and inside one: the access, the statement it
\* stands before, the value it holds in a local variable, and the number of
\* setter calls made before its getter call
OrmThread(op, pc, value, fetched) ==
    [op |-> op, pc |-> pc, value |-> value, fetched |-> fetched]
OrmThreadIdle == OrmThread("idle", "-", NoValue, 0)

\* the history kept beside the instance: the setter calls made, the writes
\* completed, and the number of setter calls that had been made when the
\* getter fetched the cached value
History(setterCalls, writesDone, cachedAfter) ==
    [op |-> "threads", setterCalls |-> setterCalls,
     writesDone |-> writesDone, cachedAfter |-> cachedAfter]

\* descriptors with a cache window, readable and writable
CachedDescriptors ==
    {d \in Descriptors :
        /\ d.exc = "ok"
        /\ d.cache_timeout > 0 /\ d.getter /\ ~d.sensitive
        /\ d.changeable /\ d.setter}

InitORMThreads ==
    /\ SpyIdle
    /\ LwIdle
    /\ SeIdle
    /\ SwIdle
    /\ threads = <<>>
    /\ orm_desc \in CachedDescriptors
    /\ orm_cache = <<>>
    /\ orm_store \in StoredValues
    /\ orm_now = 0
    /\ orm_last = History(0, 0, 0)
    /\ orm_pending = [t \in 1..OrmThreads |-> OrmThreadIdle]

ormThreadsFrame == <<spyVars, lwVars, seVars, swVars, threads>>

\* __get__ up to the getter call (orm_class.py:72-83): the value comes from
\* the cache, or the thread goes on to call the getter
GetLookup(t) ==
    /\ orm_pending[t].op = "idle"
    /\ LET r == __get__(orm_desc, orm_cache, orm_store, orm_now) IN
       orm_pending' =
           [orm_pending EXCEPT ![t] =
               IF r.getter = 0 THEN OrmThreadIdle
               ELSE OrmThread("get", "getter", NoValue, 0)]
    /\ UNCHANGED <<orm_desc, orm_cache, orm_store, orm_now, orm_last>>
    /\ UNCHANGED ormThreadsFrame

\* raw_value = self.getter(instance); value = self.type.to_python(raw_value)
GetFetch(t) ==
    /\ orm_pending[t].op = "get" /\ orm_pending[t].pc = "getter"
    /\ orm_pending' =
           [orm_pending EXCEPT ![t] =
               OrmThread("get", "store",
                         to_python(orm_desc.type, getter(orm_store)),
                         orm_last.setterCalls)]
    /\ UNCHANGED <<orm_desc, orm_cache, orm_store, orm_now, orm_last>>
    /\ UNCHANGED ormThreadsFrame

\* instance._attribute_cache[self.name] = (value, time.time()); return value
GetStore(t) ==
    /\ orm_pending[t].op = "get" /\ orm_pending[t].pc = "store"
    /\ orm_cache' = CachePut(orm_cache, orm_desc.name,
                             <<orm_pending[t].value, orm_now>>)
    /\ orm_last' = [orm_last EXCEPT !.cachedAfter = orm_pending[t].fetched]
    /\ orm_pending' = [orm_pending EXCEPT ![t] = OrmThreadIdle]
    /\ UNCHANGED <<orm_desc, orm_store, orm_now>>
    /\ UNCHANGED ormThreadsFrame

\* __set__ up to and with the call of the setter or the remover
\* (orm_class.py:94-111); a check that fails ends the access
SetCall(t, value) ==
    /\ orm_pending[t].op = "idle"
    /\ orm_last.setterCalls < MaxWrites
    /\ LET r == __set__(orm_desc, orm_cache, orm_store, value) IN
       IF r.exc # "ok"
       THEN UNCHANGED <<orm_pending, orm_store, orm_last>>
       ELSE /\ orm_store' = r.store
            /\ orm_last' = [orm_last EXCEPT !.setterCalls = @ + 1]
            /\ orm_pending' =
                   [orm_pending EXCEPT ![t] = OrmThread("set", "pop", value, 0)]
    /\ UNCHANGED <<orm_desc, orm_cache, orm_now>>
    /\ UNCHANGED ormThreadsFrame

\* instance._attribute_cache.pop(self.name, None)
SetPop(t) ==
    /\ orm_pending[t].op = "set" /\ orm_pending[t].pc = "pop"
    /\ orm_cache' = CachePop(orm_cache, orm_desc.name)
    /\ orm_last' = [orm_last EXCEPT !.writesDone = @ + 1]
    /\ orm_pending' = [orm_pending EXCEPT ![t] = OrmThreadIdle]
    /\ UNCHANGED <<orm_desc, orm_store, orm_now>>
    /\ UNCHANGED ormThreadsFrame

NextORMThreads ==
    \/ \E t \in 1..OrmThreads : GetLookup(t)
    \/ \E t \in 1..OrmThreads : GetFetch(t)
    \/ \E t \in 1..OrmThreads : GetStore(t)
    \/ \E t \in 1..OrmThreads, value \in WrittenValues : SetCall(t, value)
    \/ \E t \in 1..OrmThreads : SetPop(t)
    \/ Tick

SpecORMThreads == InitORMThreads /\ [][NextORMThreads]_vars

\* C30: under concurrent reads and writes of one attribute of one instance
\* (cache_timeout > 0), once a write has completed and no access is under
\* way any more, the cache holds no value that the getter fetched before
\* the setter call of a write.
C30_NoStaleCache ==
    (/\ orm_last.writesDone > 0
     /\ \A t \in 1..OrmThreads : orm_pending[t].op = "idle"
     /\ orm_desc.name \in DOMAIN orm_cache)
    => orm_last.cachedAfter = orm_last.setterCalls

(***************************************************************************)
(* MethodSpy under threads: the constructor, remove and the wrapper hold   *)
(* no lock, so the statements of operations on one key interleave.         *)
(***************************************************************************)

SpyThreads == 2     \* threads that work on the key

\* the key all threads work on: method m of class Base
SharedTarget == "Base"
SharedMethod == "m"
SharedKey == <<SharedTarget, SharedMethod>>
SharedOriginal == _create_original_name(SharedMethod)

\* a thread outside an operation. Inside one it holds the operation, the
\* statement it stands before and the spy it works for; a thread in the
\* loop of new_method also holds the position of the list iterator, the
\* list when the registry no longer holds it, the spies that were
\* registered and active when the loop began and the spies it has invoked
ThreadIdle ==
    [op |-> "idle", pc |-> "-", self |-> 0, it |-> 0, live |-> FALSE,
     frozen |-> <<>>, atStart |-> {}, invoked |-> <<>>, dispatched |-> FALSE,
     exc |-> "ok"]
ThreadAt(op, pc, self) == [ThreadIdle EXCEPT !.op = op, !.pc = pc, !.self = self]

\* the history kept beside the registry: how often the wrapper was put on
\* the class and the original put back, and the exception that ended a
\* construction or a removal
SpyHistory(installs, restores, failure) ==
    [op |-> "threads", installs |-> installs, restores |-> restores,
     failure |-> failure]

\* a MethodSpy object and how far it has come
SpyObject(active, status) ==
    [target |-> SharedTarget, target_method |-> SharedMethod,
     _spy_args |-> <<>>, _active |-> active, status |-> status]

InitSpyThreads ==
    /\ classDef = [t \in Types |-> ClassBody(t, "function", SharedTarget)]
    /\ classDict = classDef
    /\ spies_registery = <<>>
    /\ spies = <<>>
    /\ init_params = <<>>
    /\ last = SpyHistory(0, 0, "none")
    /\ OrmIdle
    /\ LwIdle
    /\ SeIdle
    /\ SwIdle
    /\ orm_pending = <<>>
    /\ threads = [t \in 1..SpyThreads |-> ThreadIdle]

spyThreadsFrame == <<ormVars, lwVars, seVars, swVars, orm_pending>>

\* thread t goes on to the statement pc
Goto(t, pc) == threads' = [threads EXCEPT ![t].pc = pc]
\* thread t has come to the end of its operation
Return(t) == threads' = [threads EXCEPT ![t] = ThreadIdle]
\* the spy of thread t
SetStatus(t, status) == spies' = [spies EXCEPT ![threads[t].self].status = status]
\* the operation of thread t ends with an exception
Fail(t, exc) ==
    /\ Return(t)
    /\ SetStatus(t, "failed")
    /\ last' = [last EXCEPT !.failure = exc]

\* the loops that iterate the list the registry holds go on over the list
\* object they hold once the registry lets go of it
Detached(ths, list) ==
    [u \in DOMAIN ths |->
        IF ths[u].op = "call" /\ ths[u].live
        THEN [ths[u] EXCEPT !.live = FALSE, !.frozen = list]
        ELSE ths[u]]

\* MethodSpy.__init__, lines 21-30: the fields are set and the key is
\* looked up in the registry
InitLookup(t, active) ==
    /\ threads[t].op = "idle"
    /\ Len(spies) < MaxSpies
    /\ spies' = Append(spies, SpyObject(active, "constructing"))
    /\ threads' =
           [threads EXCEPT ![t] =
               ThreadAt("register",
                        IF SharedKey \notin DOMAIN spies_registery
                        THEN "create" ELSE "append",
                        Len(spies) + 1)]
    /\ UNCHANGED <<classDef, classDict, spies_registery, init_params, last>>
    /\ UNCHANGED spyThreadsFrame

\* line 31: self.spies_registery[key] = []
InitCreate(t) ==
    /\ threads[t].op = "register" /\ threads[t].pc = "create"
    /\ spies_registery' = (SharedKey :> <<>>) @@ spies_registery
    /\ threads' =
           [(IF SharedKey \in DOMAIN spies_registery
             THEN Detached(threads, spies_registery[SharedKey])
             ELSE threads) EXCEPT ![t].pc = "hasattr"]
    /\ UNCHANGED <<classDef, classDict, spies, init_params, last>>
    /\ UNCHANGED spyThreadsFrame

\* _wrap_class_method, lines 47-51: the two hasattr tests
WrapTest(t) ==
    /\ threads[t].op = "register" /\ threads[t].pc = "hasattr"
    /\ IF ~HasAttr(classDict, SharedTarget, SharedMethod)
       THEN Fail(t, "AttributeError")
       ELSE /\ Goto(t, IF ~HasAttr(classDict, SharedTarget, SharedOriginal)
                       THEN "save" ELSE "install")
            /\ UNCHANGED <<spies, last>>
    /\ UNCHANGED <<classDef, classDict, spies_registery, init_params>>
    /\ UNCHANGED spyThreadsFrame

\* line 52: setattr(target, original_name, getattr(target, method_name))
WrapSave(t) ==
    /\ threads[t].op = "register" /\ threads[t].pc = "save"
    /\ classDict' = SetAttr(classDict, SharedTarget, SharedOriginal,
                            GetAttr(classDict, SharedTarget, SharedMethod))
    /\ Goto(t, "install")
    /\ UNCHANGED <<classDef, spies_registery, spies, init_params, last>>
    /\ UNCHANGED spyThreadsFrame

\* lines 55-70: new_method is defined around getattr(target, original_name)
\* and put on the class
WrapInstall(t) ==
    /\ threads[t].op = "register" /\ threads[t].pc = "install"
    /\ IF ~HasAttr(classDict, SharedTarget, SharedOriginal)
       THEN Fail(t, "AttributeError") /\ UNCHANGED classDict
       ELSE /\ classDict' = SetAttr(classDict, SharedTarget, SharedMethod,
                                    Wrapper(threads[t].self))
            /\ last' = [last EXCEPT !.installs = @ + 1]
            /\ Goto(t, "append")
            /\ UNCHANGED spies
    /\ UNCHANGED <<classDef, spies_registery, init_params>>
    /\ UNCHANGED spyThreadsFrame

\* line 34: self.spies_registery[key].append(self)
InitAppend(t) ==
    /\ threads[t].op = "register" /\ threads[t].pc = "append"
    /\ IF SharedKey \notin DOMAIN spies_registery
       THEN Fail(t, "KeyError") /\ UNCHANGED spies_registery
       ELSE /\ spies_registery' =
                   [spies_registery EXCEPT
                       ![SharedKey] = Append(@, threads[t].self)]
            /\ SetStatus(t, "registered")
            /\ Return(t)
            /\ UNCHANGED last
    /\ UNCHANGED <<classDef, classDict, init_params>>
    /\ UNCHANGED spyThreadsFrame

\* MethodSpy.remove, lines 82-83: the key is looked up in the registry
RemoveLookup(t, self) ==
    /\ threads[t].op = "idle"
    /\ self \in 1..Len(spies) /\ spies[self].status = "registered"
    /\ spies' = [spies EXCEPT ![self].status =
                     IF SharedKey \in DOMAIN spies_registery
                     THEN "removing" ELSE "removed"]
    /\ threads' =
           [threads EXCEPT ![t] =
               IF SharedKey \in DOMAIN spies_registery
               THEN ThreadAt("remove", "list_remove", self)
               ELSE ThreadIdle]
    /\ UNCHANGED <<classDef, classDict, spies_registery, init_params, last>>
    /\ UNCHANGED spyThreadsFrame

\* line 84: self.spies_registery[key].remove(self)
RemoveFromList(t) ==
    /\ threads[t].op = "remove" /\ threads[t].pc = "list_remove"
    /\ IF SharedKey \notin DOMAIN spies_registery
       THEN Fail(t, "KeyError") /\ UNCHANGED spies_registery
       ELSE IF ~InList(spies_registery[SharedKey], threads[t].self)
       THEN Fail(t, "ValueError") /\ UNCHANGED spies_registery
       ELSE /\ spies_registery' =
                   [spies_registery EXCEPT
                       ![SharedKey] = ListRemove(@, threads[t].self)]
            /\ Goto(t, "empty")
            /\ UNCHANGED <<spies, last>>
    /\ UNCHANGED <<classDef, classDict, init_params>>
    /\ UNCHANGED spyThreadsFrame

\* lines 85-88: if not self.spies_registery[key], and the hasattr test
RemoveTest(t) ==
    /\ threads[t].op = "remove" /\ threads[t].pc = "empty"
    /\ IF SharedKey \notin DOMAIN spies_registery
       THEN Fail(t, "KeyError")
       ELSE IF spies_registery[SharedKey] # <<>>
       THEN SetStatus(t, "removed") /\ Return(t) /\ UNCHANGED last
       ELSE /\ Goto(t, IF HasAttr(classDict, SharedTarget, SharedOriginal)
                       THEN "restore" ELSE "del_key")
            /\ UNCHANGED <<spies, last>>
    /\ UNCHANGED <<classDef, classDict, spies_registery, init_params>>
    /\ UNCHANGED spyThreadsFrame

\* line 89: setattr(target, method, getattr(target, original_name))
RemoveRestore(t) ==
    /\ threads[t].op = "remove" /\ threads[t].pc = "restore"
    /\ IF ~HasAttr(classDict, SharedTarget, SharedOriginal)
       THEN Fail(t, "AttributeError") /\ UNCHANGED classDict
       ELSE /\ classDict' =
                   SetAttr(classDict, SharedTarget, SharedMethod,
                           GetAttr(classDict, SharedTarget, SharedOriginal))
            /\ last' = [last EXCEPT !.restores = @ + 1]
            /\ Goto(t, "delattr")
            /\ UNCHANGED spies
    /\ UNCHANGED <<classDef, spies_registery, init_params>>
    /\ UNCHANGED spyThreadsFrame

\* line 90: delattr(target, original_name)
RemoveAlias(t) ==
    /\ threads[t].op = "remove" /\ threads[t].pc = "delattr"
    /\ IF SharedOriginal \notin DOMAIN classDict[SharedTarget]
       THEN Fail(t, "AttributeError") /\ UNCHANGED classDict
       ELSE /\ classDict' = DelAttr(classDict, SharedTarget, SharedOriginal)
            /\ Goto(t, "del_key")
            /\ UNCHANGED <<spies, last>>
    /\ UNCHANGED <<classDef, spies_registery, init_params>>
    /\ UNCHANGED spyThreadsFrame

\* line 92: del self.spies_registery[key]
RemoveKey(t) ==
    /\ threads[t].op = "remove" /\ threads[t].pc = "del_key"
    /\ IF SharedKey \notin DOMAIN spies_registery
       THEN Fail(t, "KeyError") /\ UNCHANGED spies_registery
       ELSE /\ spies_registery' = DictDel(spies_registery, SharedKey)
            /\ threads' =
                   [Detached(threads, spies_registery[SharedKey])
                       EXCEPT ![t] = ThreadIdle]
            /\ SetStatus(t, "removed")
            /\ UNCHANGED last
    /\ UNCHANGED <<classDef, classDict, init_params>>
    /\ UNCHANGED spyThreadsFrame

\* the spies in the list of the key that are registered and active
RegisteredActive ==
    {s \in 1..Len(spies) :
        /\ spies[s].status = "registered" /\ spies[s]._active
        /\ SharedKey \in DOMAIN spies_registery
        /\ InList(spies_registery[SharedKey], s)}

\* a caller invokes Base().m(x) while the wrapper is on the class: lines
\* 58-63, the original method runs and the loop over
\* MethodSpy.spies_registery.get(key, []) begins
DispatchBegin(t) ==
    /\ threads[t].op = "idle"
    /\ GetAttr(classDict, InstOf(SharedTarget), SharedMethod).fn = "new_method"
    /\ threads' =
           [threads EXCEPT ![t] =
               IF ~HasAttr(classDict, SharedTarget, SharedOriginal)
               THEN [ThreadIdle EXCEPT !.exc = "AttributeError"]
               ELSE [ThreadAt("call", "next", 0) EXCEPT
                        !.live = SharedKey \in DOMAIN spies_registery,
                        !.atStart = RegisteredActive]]
    /\ UNCHANGED <<classDef, classDict, spies_registery, spies, init_params, last>>
    /\ UNCHANGED spyThreadsFrame

\* the list the loop of thread t iterates
Iterated(t) ==
    IF threads[t].live THEN spies_registery[SharedKey] ELSE threads[t].frozen

\* lines 63-67: the iterator hands out the next handler, whose callback is
\* called if the handler is active; at the end of the list the call returns
DispatchNext(t) ==
    /\ threads[t].op = "call" /\ threads[t].pc = "next"
    /\ threads' =
           [threads EXCEPT ![t] =
               IF threads[t].it >= Len(Iterated(t))
               THEN [ThreadIdle EXCEPT !.dispatched = TRUE,
                                       !.atStart = threads[t].atStart,
                                       !.invoked = threads[t].invoked]
               ELSE LET handler == Iterated(t)[threads[t].it + 1] IN
                    [@ EXCEPT !.it = @ + 1,
                              !.invoked = IF spies[handler]._active
                                          THEN Append(@, handler) ELSE @]]
    /\ UNCHANGED <<classDef, classDict, spies_registery, spies, init_params, last>>
    /\ UNCHANGED spyThreadsFrame

NextSpyThreads ==
    \/ \E t \in 1..SpyThreads, active \in BOOLEAN : InitLookup(t, active)
    \/ \E t \in 1..SpyThreads : InitCreate(t)
    \/ \E t \in 1..SpyThreads : WrapTest(t)
    \/ \E t \in 1..SpyThreads : WrapSave(t)
    \/ \E t \in 1..SpyThreads : WrapInstall(t)
    \/ \E t \in 1..SpyThreads : InitAppend(t)
    \/ \E t \in 1..SpyThreads, self \in 1..MaxSpies : RemoveLookup(t, self)
    \/ \E t \in 1..SpyThreads : RemoveFromList(t)
    \/ \E t \in 1..SpyThreads : RemoveTest(t)
    \/ \E t \in 1..SpyThreads : RemoveRestore(t)
    \/ \E t \in 1..SpyThreads : RemoveAlias(t)
    \/ \E t \in 1..SpyThreads : RemoveKey(t)
    \/ \E t \in 1..SpyThreads : DispatchBegin(t)
    \/ \E t \in 1..SpyThreads : DispatchNext(t)

SpecSpyThreads == InitSpyThreads /\ [][NextSpyThreads]_vars

(***************************************************************************)
(* Properties of MethodSpy under threads                                   *)
(***************************************************************************)

\* every spy whose construction has returned and whose removal has not
\* begun is in the list of the key
NoLostRegistration ==
    \A s \in 1..Len(spies) :
        spies[s].status = "registered" =>
            /\ SharedKey \in DOMAIN spies_registery
            /\ InList(spies_registery[SharedKey], s)

\* the wrapper is put on the class once before the original is put back,
\* and the original is put back once for each time
InstalledOnce ==
    /\ last.restores <= last.installs
    /\ last.installs <= last.restores + 1

\* the alias, while it exists, holds the method as written
AliasIsOriginal ==
    SharedOriginal \in DOMAIN classDict[SharedTarget] =>
        classDict[SharedTarget][SharedOriginal] =
            classDef[SharedTarget][SharedMethod]

\* C23: concurrent registrations and removals on one key behave as if they
\* were serialized: no registration is lost, the wrapper is installed at
\* most once and the original restored at most once, the alias always holds
\* the true original, and no thread fails because of the interleaving.
C23_Serialized ==
    /\ NoLostRegistration
    /\ InstalledOnce
    /\ AliasIsOriginal
    /\ last.failure = "none"

\* how often spy s was invoked
Invocations(invoked, s) == Cardinality({i \in 1..Len(invoked) : invoked[i] = s})

\* C24: a dispatch observes a consistent snapshot of the list of its key:
\* when a spy is removed or registered while the dispatch is under way,
\* every spy that was registered and active when the dispatch began, and
\* was not removed, has been invoked exactly once when the dispatch ends.
C24_Snapshot ==
    \A t \in 1..SpyThreads :
        threads[t].dispatched =>
            \A s \in threads[t].atStart :
                spies[s].status = "registered" =>
                    Invocations(threads[t].invoked, s) = 1

(***************************************************************************)
(* SuperWith when entering fails                                           *)
(***************************************************************************)

\* the contexts that have been entered and not exited: those left on the
\* stack of either mode
LeftEntered == Len(sw_stack.sync_stack) + Len(sw_stack.async_stack)

\* the enter events of the log
EnteredSoFar == Cardinality({i \in 1..Len(sw_log) : sw_log[i][1] = "enter"})

\* C31: if entering the k-th context of a SuperWith raises (k > 1), or a
\* later context fails the enter/exit capability check, every context that
\* was already entered has been exited exactly once, in reverse order,
\* when the error reaches the caller; no entered context is left un-exited.
C31_EnterFailureUnwinds ==
    sw_last.pc = "raised" =>
        /\ sw_log = Enters(EnteredSoFar) \o Exits(EnteredSoFar)
        /\ LeftEntered = 0

\* the capability check runs before the first context is entered, so a
\* context that fails it leaves no context entered
C31_CheckBeforeEnter ==
    (sw_last.pc = "raised" /\ sw_last.exc = "TypeError") =>
        sw_log = <<>> /\ LeftEntered = 0

====
